---- MODULE Spec2Model ----
(***************************************************************************)
(* A model of the ofxtools binding engine.                                 *)
(*                                                                         *)
(*   - ofxalchemy/models.py : Aggregate.get / get_or_create / from_etree,  *)
(*     the per-class hooks (SECID, ORIGCURRENCY, BANKTRAN, INVTRAN, ...)   *)
(*     and the SQLAlchemy session they run against;                        *)
(*   - models/email.py      : the schema declarations of OFX section 9.    *)
(*                                                                         *)
(* Python's None is "NULL" for text attributes and 0 for integer ids.      *)
(* An error is the name of the Python exception class; "" is no error.     *)
(***************************************************************************)
EXTENDS Integers, Sequences, FiniteSets, TLC

VARIABLES
    ents,    \* the session: entities in order of DBSession.add (index = object identity)
    failed,  \* the session's transaction is dead after a failed flush
    calls,   \* history: the get / get_or_create calls that returned, with what they returned
    doc,     \* the caller's element tree (the object handed to from_etree)
    docOrig, \* the tree as the caller built it
    build,   \* the interpreter the program runs on
    binders, \* the binders that run side by side, each in a session of its own
    last     \* what the last operation was and how it ended

vars == <<ents, failed, calls, doc, docOrig, build, binders, last>>

NULL == "NULL"

\* ------------------------------------------------------------------ bounds
\* how many entities a session may hold
MaxEnts == 2

\* ------------------------------------------------------------------ helpers
Restrict(f, S) == [k \in S |-> f[k]]

Merge(f, g) == [k \in (DOMAIN f) \cup (DOMAIN g) |-> IF k \in DOMAIN g THEN g[k] ELSE f[k]]

EmptyMap == [k \in {} |-> NULL]

\* ------------------------------------------------------------------ schema
\* the mapped classes of models.py that the model covers
SecinfoClasses == {"SECINFO", "STOCKINFO", "MFINFO", "OPTINFO"}

AccttoClasses == {"ACCTTO", "BANKACCTTO", "CCACCTTO"}

\* Inheritor(parent_table): classes with a surrogate integer id and natural keys in pks
InheritorClasses == SecinfoClasses \cup AccttoClasses

\* query(cls) of a joined-table base returns the rows of its subclasses too
Polymorphic(cls) ==
    CASE cls = "SECINFO" -> SecinfoClasses
      [] cls = "ACCTTO"  -> AccttoClasses
      [] OTHER           -> {cls}

\* Aggregate.primary_keys (column primary keys) and InheritanceMixin.primary_keys (cls.pks)
primary_keys(cls) ==
    CASE cls \in SecinfoClasses -> {"uniqueid", "uniqueidtype"}
      [] cls = "BANKACCTTO"     -> {"bankid", "acctid"}
      [] cls = "CCACCTTO"       -> {"acctid"}
      [] cls = "PAYEE"          -> {"name"}
      [] cls = "PORTION"        -> {"mfinfo_id", "assetclass"}
      [] cls = "FIPORTION"      -> {"mfinfo_id", "fiassetclass"}
      [] cls \in {"STMTTRN", "INVTRAN", "BUYSTOCK", "INCOME", "MARGININTEREST"}
                                -> {"acctfrom_id", "fitid"}
      [] cls \in {"INVPOS", "POSSTOCK"}
                                -> {"acctfrom_id", "secinfo_id", "dtasof"}
      [] OTHER                  -> {}

\* the table whose UniqueConstraint(*pks) / primary key covers the natural key
UniqueTable(cls) ==
    CASE cls \in SecinfoClasses -> "secinfo"
      [] OTHER                  -> cls

\* the table that hands out the surrogate id
IdTable(cls) ==
    CASE cls \in SecinfoClasses -> "secinfo"
      [] cls \in AccttoClasses  -> "acctto"
      [] OTHER                  -> cls

\* ------------------------------------------------------------------ session
Key(e) == Restrict(e.attrs, primary_keys(e.cls))

\* autoincrement of the id column of the class's base table
NewId(es, cls) ==
    LET used == {es[i].id : i \in {j \in 1..Len(es) : IdTable(es[j].cls) = IdTable(cls)}}
    IN  IF cls \in InheritorClasses
        THEN (CHOOSE m \in used \cup {0} : \A x \in used : x <= m) + 1
        ELSE 0

\* INSERT of es[i] breaks a NOT NULL: a part of a composite primary key that is
\* None, or the discriminator column "subclass" of a base class, which has no
\* polymorphic identity
NullColumn(e) ==
    \/ e.cls \in {"ACCTFROM", "ACCTTO", "SECINFO", "INVTRAN", "INVPOS"}
    \/ e.cls \in {"PORTION", "FIPORTION"} /\ e.attrs["mfinfo_id"] = 0

\* mutant: the table is created without UniqueConstraint(*pks)
Conflicts_Never(es, i) == FALSE

\* INSERT of es[i] breaks the uniqueness of its natural key
Conflicts(es, i) ==
    \E j \in 1..Len(es) :
        /\ j # i
        /\ es[j].state = "persistent"
        /\ UniqueTable(es[j].cls) = UniqueTable(es[i].cls)
        /\ Key(es[j]) = Key(es[i])

\* Session.flush: INSERT every pending entity, in the order they were added;
\* one failing INSERT fails the flush and nothing of it is kept
RECURSIVE FlushFrom(_, _, _)
FlushFrom(orig, es, i) ==
    IF i > Len(es) THEN [ok |-> TRUE, ents |-> es]
    ELSE IF es[i].state # "pending" THEN FlushFrom(orig, es, i + 1)
    ELSE IF Conflicts(es, i) \/ NullColumn(es[i]) THEN [ok |-> FALSE, ents |-> orig]
    ELSE FlushFrom(orig,
                   [es EXCEPT ![i] = [@ EXCEPT !.state = "persistent",
                                               !.id = NewId(es, es[i].cls)]],
                   i + 1)

Flush(es) == FlushFrom(es, es, 1)

\* a result of get / get_or_create: err, the entity returned (0: none), the session after
Res(err, ret, es, fl) == [err |-> err, ret |-> ret, ents |-> es, failed |-> fl]

\* mutant: the session is made with autoflush off, so a query misses pending entities
QueryOne_NoAutoflush(cls, pk, es, fl) ==
    LET hits == {i \in 1..Len(es) :
                    /\ es[i].cls \in Polymorphic(cls)
                    /\ es[i].state = "persistent"
                    /\ Restrict(es[i].attrs, DOMAIN pk) = pk}
    IN  IF fl THEN Res("InvalidRequestError", 0, es, fl)
        ELSE IF hits = {} THEN Res("NoResultFound", 0, es, fl)
        ELSE IF Cardinality(hits) > 1 THEN Res("MultipleResultsFound", 0, es, fl)
        ELSE Res("", CHOOSE i \in hits : TRUE, es, fl)

\* DBSession.query(cls).filter_by(**pk).one(), with the session's autoflush
QueryOne(cls, pk, es, fl) ==
    IF fl THEN Res("InvalidRequestError", 0, es, fl)
    ELSE LET f == Flush(es)
             hits == {i \in 1..Len(f.ents) :
                        /\ f.ents[i].cls \in Polymorphic(cls)
                        /\ f.ents[i].state = "persistent"
                        /\ Restrict(f.ents[i].attrs, DOMAIN pk) = pk}
         IN  IF ~f.ok THEN Res("IntegrityError", 0, es, TRUE)
             ELSE IF hits = {} THEN Res("NoResultFound", 0, f.ents, fl)
             ELSE IF Cardinality(hits) > 1 THEN Res("MultipleResultsFound", 0, f.ents, fl)
             ELSE Res("", CHOOSE i \in hits : TRUE, f.ents, fl)

\* the error get raises for attributes that leave out a key attribute: ValueError,
\* with a message of the class's name, its pks and the arguments
Unsatisfied(cls, attrs, es, fl) ==
    [err |-> "ValueError", ret |-> 0, ents |-> es, failed |-> fl,
     msg |-> [schema |-> cls, required |-> primary_keys(cls), given |-> attrs]]

\* mutant: get queries by the key attributes it was given
get_Lenient(cls, attrs, es, fl) ==
    LET pks == primary_keys(cls)
    IN  IF cls \in {"ACCTFROM", "ACCTTO"} THEN Res("AttributeError", 0, es, fl)
        ELSE QueryOne(cls, Restrict(attrs, pks \cap DOMAIN attrs), es, fl)

\* Aggregate.get; ACCTFROM and ACCTTO declare no pks, so cls.pks raises
get(cls, attrs, es, fl) ==
    LET pks == primary_keys(cls)
    IN  IF cls \in {"ACCTFROM", "ACCTTO"} THEN Res("AttributeError", 0, es, fl)
        ELSE IF ~(pks \subseteq DOMAIN attrs) THEN Unsatisfied(cls, attrs, es, fl)
        ELSE QueryOne(cls, Restrict(attrs, pks), es, fl)

\* the columns a class's constructor accepts as keywords
Columns(cls) ==
    CASE cls = "SECINFO"        -> {"uniqueid", "uniqueidtype", "secname"}
      [] cls = "STOCKINFO"      -> {"uniqueid", "uniqueidtype", "secname", "yld"}
      [] cls = "MFINFO"         -> {"uniqueid", "uniqueidtype", "secname", "mftype", "yld"}
      [] cls = "OPTINFO"        -> {"uniqueid", "uniqueidtype", "secname", "opttype"}
      [] cls = "PORTION"        -> {"mfinfo_id", "assetclass", "percent"}
      [] cls = "FIPORTION"      -> {"mfinfo_id", "fiassetclass", "percent"}
      [] cls \in {"ACCTFROM", "ACCTTO"}
                                -> {"name"}
      [] cls = "INVTRAN"        -> {"fitid", "acctfrom_id"}
      [] cls = "INVPOS"         -> {"mktval", "secinfo_id", "acctfrom_id",
                                    "currate", "cursym"}
      [] cls = "BANKACCTTO"     -> {"bankid", "acctid", "accttype"}
      [] cls = "CCACCTTO"       -> {"acctid", "acctkey"}
      [] cls = "PAYEE"          -> {"name", "addr1"}
      [] cls = "BUYSTOCK"       -> {"fitid", "total", "buytype", "secinfo_id",
                                    "curtype", "currate", "cursym"}
      [] cls = "INCOME"         -> {"fitid", "total", "secinfo_id",
                                    "curtype", "currate", "cursym"}
      [] cls = "MARGININTEREST" -> {"fitid", "total", "curtype", "currate", "cursym"}
      [] cls = "POSSTOCK"       -> {"mktval", "secinfo_id", "currate", "cursym"}
      [] cls = "STMTTRN"        -> {"fitid", "trnamt", "acctto_id", "payee_name",
                                    "curtype", "currate", "cursym"}
      [] OTHER                  -> {}

\* cls(**attrs): the declarative constructor rejects a keyword that is no attribute
Construct(cls, attrs) ==
    IF DOMAIN attrs \subseteq Columns(cls)
    THEN [err |-> "", obj |-> [cls |-> cls, attrs |-> attrs, id |-> 0, state |-> "pending"]]
    ELSE [err |-> "TypeError", obj |-> [cls |-> cls, attrs |-> attrs, id |-> 0, state |-> "none"]]

\* DBSession.add
SessionAdd(es, obj) == Append(es, obj)

\* mutant: creates without looking the key up first
get_or_create_AlwaysCreate(cls, attrs, es, fl) ==
    LET c == Construct(cls, attrs)
    IN  IF ~(primary_keys(cls) \subseteq DOMAIN attrs) THEN Res("ValueError", 0, es, fl)
        ELSE IF c.err # "" THEN Res(c.err, 0, es, fl)
        ELSE Res("", Len(es) + 1, SessionAdd(es, c.obj), fl)

\* mutant: an entity that is found takes the attributes of the call
get_or_create_Overwrite(cls, attrs, es, fl) ==
    LET g == get(cls, attrs, es, fl)
        c == Construct(cls, attrs)
    IN  IF g.err = ""
        THEN Res("", g.ret, [g.ents EXCEPT ![g.ret].attrs = Merge(@, attrs)], g.failed)
        ELSE IF g.err # "NoResultFound" THEN g
        ELSE IF c.err # "" THEN Res(c.err, 0, g.ents, g.failed)
        ELSE Res("", Len(g.ents) + 1, SessionAdd(g.ents, c.obj), g.failed)

\* Aggregate.get_or_create
get_or_create(cls, attrs, es, fl) ==
    LET g == get(cls, attrs, es, fl)
        c == Construct(cls, attrs)
    IN  IF g.err # "NoResultFound" THEN g
        ELSE IF c.err # "" THEN Res(c.err, 0, g.ents, g.failed)
        ELSE Res("", Len(g.ents) + 1, SessionAdd(g.ents, c.obj), g.failed)

\* ------------------------------------------------------------------ element trees
\* an element: tag, text ("" when it has none) and children, as the parser builds it
Leaf(tag, text) == [tag |-> tag, text |-> text, kids |-> <<>>]

Agg(tag, kids) == [tag |-> tag, text |-> "", kids |-> kids]

NoTree == [tag |-> "", text |-> "", kids |-> <<>>]

\* A found element is named by its path from the root (child indexes); <<>> is None.
\* element.find('TAG') and element.find('./TAG'): the first direct child
find_child(e, tag) ==
    LET hits == {i \in 1..Len(e.kids) : e.kids[i].tag = tag}
    IN  IF hits = {} THEN <<>> ELSE <<CHOOSE i \in hits : \A j \in hits : i <= j>>

\* element.find('*/TAG'): the first child of a child, never a direct child
find_grandchild(e, tag) ==
    LET hits == {i \in 1..Len(e.kids) : find_child(e.kids[i], tag) # <<>>}
        i == CHOOSE x \in hits : \A y \in hits : x <= y
    IN  IF hits = {} THEN <<>> ELSE <<i>> \o find_child(e.kids[i], tag)

\* element.find('.//TAG'): the first descendant in document order
RECURSIVE find_descendant(_, _), FindDescFrom(_, _, _)
FindDescFrom(e, tag, i) ==
    IF i > Len(e.kids) THEN <<>>
    ELSE IF e.kids[i].tag = tag THEN <<i>>
    ELSE LET p == find_descendant(e.kids[i], tag)
         IN  IF p # <<>> THEN <<i>> \o p ELSE FindDescFrom(e, tag, i + 1)

find_descendant(e, tag) == FindDescFrom(e, tag, 1)

RECURSIVE NodeAt(_, _)
NodeAt(e, p) == IF p = <<>> THEN e ELSE NodeAt(e.kids[p[1]], Tail(p))

RemoveIdx(q, i) == [j \in 1..(Len(q) - 1) |-> IF j < i THEN q[j] ELSE q[j + 1]]

\* parent.remove(child), for the child at path p
RECURSIVE RemoveAt(_, _)
RemoveAt(e, p) ==
    IF Len(p) = 1 THEN [e EXCEPT !.kids = RemoveIdx(@, p[1])]
    ELSE [e EXCEPT !.kids[p[1]] = RemoveAt(@, Tail(p))]

\* bool(element): an element without children is false, and so is None
Truthy(e, p) == p # <<>> /\ Len(NodeAt(e, p).kids) > 0

\* tag.lower() of the leaf tags
LowerOf ==
    [FITID |-> "fitid", TOTAL |-> "total", BUYTYPE |-> "buytype", MKTVAL |-> "mktval",
     TRNAMT |-> "trnamt", UNIQUEID |-> "uniqueid", UNIQUEIDTYPE |-> "uniqueidtype",
     CURRATE |-> "currate", CURSYM |-> "cursym", NAME |-> "name", ADDR1 |-> "addr1",
     BANKID |-> "bankid", ACCTID |-> "acctid", ACCTTYPE |-> "accttype",
     SECNAME |-> "secname", MFTYPE |-> "mftype", ASSETCLASS |-> "assetclass",
     FIASSETCLASS |-> "fiassetclass", PERCENT |-> "percent", YIELD |-> "yield",
     OPTTYPE |-> "opttype"]

\* Element._flatten: the un-nested map of the leaves; an aggregate without leaves
\* leaves nothing.  Two leaves of one name collide: an assertion fails, or (asserts
\* compiled out) the later one wins.
RECURSIVE flatten(_, _), FlattenFrom(_, _, _, _)
FlattenFrom(e, asserts, i, acc) ==
    IF i > Len(e.kids) THEN [err |-> "", attrs |-> acc]
    ELSE LET k == e.kids[i]
             sub == IF k.text # ""
                    THEN [err |-> "", attrs |-> [n \in {LowerOf[k.tag]} |-> k.text]]
                    ELSE flatten(k, asserts)
         IN  IF sub.err # "" THEN sub
             ELSE IF asserts /\ (DOMAIN sub.attrs) \cap (DOMAIN acc) # {}
                  THEN [err |-> "AssertionError", attrs |-> acc]
             ELSE FlattenFrom(e, asserts, i + 1, Merge(acc, sub.attrs))

flatten(e, asserts) == FlattenFrom(e, asserts, 1, EmptyMap)

\* ------------------------------------------------------------------ binding
\* the names of the module namespace that globals()[element.tag] finds
SchemaClasses ==
    {"PAYEE", "BANKACCTTO", "CCACCTTO", "STOCKINFO", "MFINFO", "OPTINFO", "PORTION", "FIPORTION",
     "STMTTRN", "BUYSTOCK", "INCOME", "MARGININTEREST", "POSSTOCK"}

\* synthetic bases: mapped classes that stand for no OFX aggregate
GroupingClasses == {"ACCTFROM", "ACCTTO", "SECINFO", "INVTRAN", "INVPOS"}

\* declarative mixins: plain classes, not mapped
MixinClasses ==
    {"CURRENCY", "ORIGCURRENCY", "SECID", "INVBUYSELL", "INVBUY", "INVSELL",
     "BANKTRAN", "Balance"}

Globals == SchemaClasses \cup GroupingClasses \cup MixinClasses

\* the classes with BANKTRAN, INVTRAN, INVPOS, SECID, ORIGCURRENCY among their bases
BanktranClasses == {"BANKTRAN", "STMTTRN"}

InvtranClasses == {"INVTRAN", "BUYSTOCK", "INCOME", "MARGININTEREST"}

InvposClasses == {"INVPOS", "POSSTOCK"}

SecidClasses == {"BUYSTOCK", "INCOME", "INVPOS", "POSSTOCK"}

OrigcurrencyClasses == {"BANKTRAN", "STMTTRN", "BUYSTOCK", "INCOME", "MARGININTEREST"}

\* the class whose _preflatten the method resolution order of cls finds; "" when
\* cls has no such attribute
PreflattenOf(cls) ==
    CASE cls \in BanktranClasses -> "BANKTRAN"
      [] cls \in InvtranClasses  -> "INVTRAN"
      [] cls \in InvposClasses   -> "INVPOS"
      [] cls = "OPTINFO"         -> "OPTINFO"
      [] cls \in SchemaClasses \cup GroupingClasses -> "Aggregate"
      [] OTHER                   -> ""

\* what a hook works on: the element, the extra attributes, the session, the error
\* raised (if any), the hooks that ran and whether the session was queried
Ctx(el, extra, es, fl) ==
    [el |-> el, extra |-> extra, ents |-> es, failed |-> fl, err |-> "",
     hooks |-> {}, access |-> FALSE]

Raise(x, e) == [x EXCEPT !.err = e]

Ran(x, hook) == [x EXCEPT !.hooks = @ \cup {hook}]

\* the session a query left behind
Queried(x, r) == [x EXCEPT !.ents = r.ents, !.failed = r.failed, !.access = TRUE]

\* secid.remove(uniqueidtype); secid.remove(uniqueid)
RemoveUniqueid(el, secid) ==
    RemoveAt(el, secid \o find_child(NodeAt(el, secid), "UNIQUEID"))

RemoveLeaves(el, secid, ut) == RemoveUniqueid(RemoveAt(el, secid \o ut), secid)

\* mutant: the SECID leaves are removed whether or not the security was found
do_secid_found_RemoveFirst(x, secid, ut, r) ==
    IF r.err # "" THEN Raise([x EXCEPT !.el = RemoveLeaves(@, secid, ut)], r.err)
    ELSE [x EXCEPT !.extra = Merge(@, [secinfo_id |-> r.ents[r.ret].id]),
                   !.el = RemoveLeaves(@, secid, ut)]

\* SECID._do_secid from the result r of the lookup on: a lookup that raised leaves
\* the element alone
do_secid_found(x, secid, ut, r) ==
    IF r.err # "" THEN Raise(x, r.err)
    ELSE [x EXCEPT !.extra = Merge(@, [secinfo_id |-> r.ents[r.ret].id]),
                   !.el = RemoveLeaves(@, secid, ut)]

\* mutant: the security is looked up with get_or_create
do_secid_lookup_GetOrCreate(x, secid, ut, r) ==
    do_secid_found(Queried(x, get_or_create("SECINFO", r.pk, x.ents, x.failed)), secid, ut,
                   get_or_create("SECINFO", r.pk, x.ents, x.failed))

\* SECINFO.get(uniqueidtype=..., uniqueid=...), r its result
do_secid_lookup(x, secid, ut, r) == do_secid_found(Queried(x, r.got), secid, ut, r.got)

\* SECID._do_secid from the leaves on: None.text raises AttributeError
do_secid_leaves(x, secid, node, ut, u) ==
    IF ut = <<>> \/ u = <<>> THEN Raise(x, "AttributeError")
    ELSE do_secid_lookup(x, secid, ut,
            LET pk == [uniqueidtype |-> NodeAt(node, ut).text, uniqueid |-> NodeAt(node, u).text]
            IN  [pk |-> pk, got |-> get("SECINFO", pk, x.ents, x.failed)])

\* SECID._do_secid from the SECID element on: None.find raises AttributeError
do_secid_at(x, secid) ==
    IF secid = <<>> THEN Raise(x, "AttributeError")
    ELSE do_secid_leaves(x, secid, NodeAt(x.el, secid),
                         find_child(NodeAt(x.el, secid), "UNIQUEIDTYPE"),
                         find_child(NodeAt(x.el, secid), "UNIQUEID"))

\* SECID._do_secid
do_secid(x) == do_secid_at(Ran(x, "SECID._do_secid"), find_descendant(x.el, "SECID"))

\* INVTRAN._do_secid: "classmethod" stands on a line of its own, decorating nothing,
\* so cls._do_secid(element) is a call of a plain function with an argument short
do_secid_INVTRAN(x) == Raise(Ran(x, "INVTRAN._do_secid"), "TypeError")

\* ORIGCURRENCY._do_origcurrency: '*/CURRENCY' finds grandchildren only; the message
\* of the ValueError names elem, which is not defined, so raising it raises NameError
do_origcurrency(x) ==
    LET currency == find_grandchild(x.el, "CURRENCY")
        origcurrency == find_grandchild(x.el, "ORIGCURRENCY")
        x1 == Ran(x, "ORIGCURRENCY._do_origcurrency")
    IN  IF currency # <<>> /\ origcurrency # <<>> THEN Raise(x1, "NameError")
        ELSE [x1 EXCEPT !.extra = Merge(@, [curtype |->
                 IF currency # <<>> THEN NodeAt(x.el, currency).tag
                 ELSE IF origcurrency # <<>> THEN NodeAt(x.el, origcurrency).tag ELSE NULL])]

\* INVTRAN._do_origcurrency: the identity
do_origcurrency_INVTRAN(x) == Ran(x, "INVTRAN._do_origcurrency")

\* cls._do_secid and cls._do_origcurrency, as the bases of cls resolve them
DoSecid(cls, x) == IF cls \in SecidClasses THEN do_secid(x) ELSE do_secid_INVTRAN(x)

DoOrigcurrency(cls, x) ==
    IF cls \in OrigcurrencyClasses THEN do_origcurrency(x) ELSE do_origcurrency_INVTRAN(x)

\* INVTRAN._preflatten: _do_origcurrency, unless _do_secid raised
preflatten_origcurrency(cls, x) == IF x.err # "" THEN x ELSE DoOrigcurrency(cls, x)

\* INVTRAN._preflatten
preflatten_INVTRAN(cls, x) ==
    preflatten_origcurrency(cls, DoSecid(cls, Ran(x, "INVTRAN._preflatten")))

\* INVPOS._preflatten
preflatten_INVPOS(cls, x) == DoSecid(cls, Ran(x, "INVPOS._preflatten"))

\* OPTINFO._do_secid, lines 491-493: the SECID found at path secid, a direct child
\* that names the underlying security, is removed
do_secid_OPTINFO_at(x, secid) ==
    IF secid = <<>> THEN x ELSE [x EXCEPT !.el = RemoveAt(x.el, secid)]

\* mutant: OPTINFO resolves its SECID as the classes with the SECID mixin do
do_secid_OPTINFO_Resolve(x) == do_secid(Ran(x, "OPTINFO._do_secid"))

\* OPTINFO._do_secid
do_secid_OPTINFO(x) ==
    do_secid_OPTINFO_at(Ran(x, "OPTINFO._do_secid"), find_child(x.el, "SECID"))

\* OPTINFO._preflatten
preflatten_OPTINFO(x) == do_secid_OPTINFO(Ran(x, "OPTINFO._preflatten"))

\* the instance from_etree returns: its class and attributes, and the entity of the
\* session it is (0: a transient object)
NoInst == [cls |-> "", attrs |-> EmptyMap, ent |-> 0]

\* what from_etree hands back: the error or the instance, the element as the call
\* left it, the session, the hooks that ran, whether the session was queried
Bound(x, err, inst) ==
    [err |-> err, inst |-> inst, el |-> x.el, ents |-> x.ents, failed |-> x.failed,
     hooks |-> x.hooks, access |-> x.access]

RECURSIVE from_etree(_, _, _, _, _, _)

\* mutant: a sub-aggregate that fails to bind is skipped
Referred_Skip(x, p, tag, r, b) ==
    IF r.err # "" THEN x
    ELSE IF tag = "BANKACCTTO"
         THEN Raise([x EXCEPT !.extra = Merge(@, [acctto_id |-> r.ents[r.inst.ent].id])],
                    IF b.etree = "py" THEN "ValueError" ELSE "TypeError")
    ELSE IF tag = "CCACCTTO"
         THEN [x EXCEPT !.extra = Merge(@, [acctto_id |-> r.ents[r.inst.ent].id]),
                        !.el = RemoveAt(@, p)]
    ELSE [x EXCEPT !.extra = Merge(@, [payee_name |-> r.inst.attrs["name"]]),
                   !.el = RemoveAt(@, p)]

\* BANKTRAN._preflatten after the sub-aggregate at path p is bound, r the result: the
\* reference goes into the extra attributes and the element is removed. For
\* BANKACCTTO the code hands remove() the instance, not the element: the pure Python
\* ElementTree raises ValueError, the C one TypeError.
Referred(x, p, tag, r, b) ==
    IF r.err # "" THEN Raise(x, r.err)
    ELSE IF tag = "BANKACCTTO"
         THEN Raise([x EXCEPT !.extra = Merge(@, [acctto_id |-> r.ents[r.inst.ent].id])],
                    IF b.etree = "py" THEN "ValueError" ELSE "TypeError")
    ELSE IF tag = "CCACCTTO"
         THEN [x EXCEPT !.extra = Merge(@, [acctto_id |-> r.ents[r.inst.ent].id]),
                        !.el = RemoveAt(@, p)]
    ELSE [x EXCEPT !.extra = Merge(@, [payee_name |-> r.inst.attrs["name"]]),
                   !.el = RemoveAt(@, p)]

\* the session and the hooks after the nested from_etree
Nested(x, r) ==
    [x EXCEPT !.ents = r.ents, !.failed = r.failed,
              !.hooks = @ \cup r.hooks, !.access = @ \/ r.access]

ReferTo(x, p, tag, r, b) == Referred(Nested(x, r), p, tag, r, b)

\* instance = Aggregate.from_etree(sub, get_or_create=True), sub the child at path p
Refer(x, p, b) ==
    ReferTo(x, p, NodeAt(x.el, p).tag,
            from_etree(NodeAt(x.el, p), EmptyMap, TRUE, x.ents, x.failed, b), b)

\* BANKTRAN._preflatten: an element is true when it has children
ReferIf(x, p, b) == IF Truthy(x.el, p) THEN Refer(x, p, b) ELSE x

preflatten_payee(x, b) ==
    IF x.err # "" THEN x ELSE ReferIf(x, find_child(x.el, "PAYEE"), b)

preflatten_acctto(x, bankacctto, b) ==
    IF Truthy(x.el, bankacctto) THEN Refer(x, bankacctto, b)
    ELSE ReferIf(x, find_child(x.el, "CCACCTTO"), b)

preflatten_BANKTRAN(x, b) ==
    preflatten_payee(
        preflatten_acctto(Ran(x, "BANKTRAN._preflatten"), find_child(x.el, "BANKACCTTO"), b), b)

\* SubClass._preflatten
preflatten(cls, x, b) ==
    CASE PreflattenOf(cls) = "BANKTRAN" -> preflatten_BANKTRAN(x, b)
      [] PreflattenOf(cls) = "INVTRAN"  -> preflatten_INVTRAN(cls, x)
      [] PreflattenOf(cls) = "INVPOS"   -> preflatten_INVPOS(cls, x)
      [] PreflattenOf(cls) = "OPTINFO"  -> preflatten_OPTINFO(x)
      [] OTHER                          -> Ran(x, "Aggregate._preflatten")

\* mutant: STOCKINFO hands the attributes on as they are
postflatten_STOCKINFO_Keep(attributes) == attributes

\* STOCKINFO._postflatten: attributes.pop('yield', None), and attributes['yld'] is
\* set when the value popped is true (a text that is not empty)
postflatten_STOCKINFO(attributes) ==
    LET rest == Restrict(attributes, DOMAIN attributes \ {"yield"})
    IN  IF "yield" \in DOMAIN attributes /\ attributes["yield"] \notin {"", NULL}
        THEN Merge(rest, [yld |-> attributes["yield"]])
        ELSE rest

\* SubClass._postflatten: that of STOCKINFO, or the identity of Aggregate
postflatten(cls, attributes, x) ==
    IF cls = "STOCKINFO"
    THEN [attrs |-> postflatten_STOCKINFO(attributes), x |-> Ran(x, "STOCKINFO._postflatten")]
    ELSE [attrs |-> attributes, x |-> Ran(x, "Aggregate._postflatten")]

\* return SubClass.get_or_create(**attributes), r its result
from_etree_got(cls, x, attributes, r) ==
    IF r.err # "" THEN Bound(x, r.err, NoInst)
    ELSE Bound(x, "", [cls |-> cls, attrs |-> r.ents[r.ret].attrs, ent |-> r.ret])

\* return SubClass(**attributes), c its result
from_etree_made(cls, x, attributes, c) ==
    IF c.err # "" THEN Bound(x, c.err, NoInst)
    ELSE Bound(x, "", [cls |-> cls, attrs |-> attributes, ent |-> 0])

\* the session after get_or_create, which queries when the natural key is complete
Created(x, cls, attributes, r) ==
    [x EXCEPT !.ents = r.ents, !.failed = r.failed,
              !.access = @ \/ (primary_keys(cls) \subseteq DOMAIN attributes)]

from_etree_create(cls, x, attributes, r) ==
    from_etree_got(cls, Created(x, cls, attributes, r), attributes, r)

\* attributes.update(extra_attrs) and the construction of the instance
from_etree_attributes(cls, x, attributes, goc) ==
    IF goc THEN from_etree_create(cls, x, attributes,
                                  get_or_create(cls, attributes, x.ents, x.failed))
    ELSE from_etree_made(cls, x, attributes, Construct(cls, attributes))

from_etree_postflattened(cls, pf, goc) ==
    from_etree_attributes(cls, pf.x, Merge(pf.attrs, pf.x.extra), goc)

\* attributes = element._flatten(), f its result
from_etree_flattened(cls, x, f, goc) ==
    IF f.err # "" THEN Bound(x, f.err, NoInst)
    ELSE from_etree_postflattened(cls, postflatten(cls, f.attrs, x), goc)

from_etree_preflattened(cls, x, goc, b) ==
    IF x.err # "" THEN Bound(x, x.err, NoInst)
    ELSE from_etree_flattened(cls, x, flatten(x.el, b.asserts), goc)

\* Aggregate.from_etree: globals()[element.tag] raises KeyError, and a class without
\* _preflatten raises AttributeError
from_etree(element, extra_attrs, goc, es, fl, b) ==
    IF element.tag \notin Globals
    THEN Bound(Ctx(element, extra_attrs, es, fl), "KeyError", NoInst)
    ELSE IF PreflattenOf(element.tag) = ""
         THEN Bound(Ctx(element, extra_attrs, es, fl), "AttributeError", NoInst)
    ELSE from_etree_preflattened(element.tag,
            preflatten(element.tag, Ctx(element, extra_attrs, es, fl), b), goc, b)

\* ------------------------------------------------------------------ inputs
KeyValues == {"a", "b"}

\* the values a caller passes for an attribute
ValuesOf(attr) == IF attr = "uniqueidtype" THEN {"CUSIP"} ELSE KeyValues

\* the keyword arguments a caller passes for a class: its natural key, alone, with
\* one more attribute, or with a key attribute left out
ArgsOf(cls) ==
    LET pks == primary_keys(cls)
        full == {f \in [pks -> KeyValues \cup {"CUSIP"}] : \A k \in pks : f[k] \in ValuesOf(k)}
        more == IF cls = "PAYEE" THEN {Merge(k, [addr1 |-> "a"]) : k \in full} ELSE {}
        less == {Restrict(k, pks \ {a}) : k \in {f \in full : \A x \in pks : f[x] # "b"}, a \in pks}
    IN  full \cup more \cup less

\* the classes a caller creates through get_or_create, and those it looks up
StoreClasses == {"PAYEE", "BANKACCTTO", "STOCKINFO", "MFINFO"}

GetClasses == {"PAYEE", "BANKACCTTO", "SECINFO"}

\* the securities documents refer to, and those a caller registers
DocSecurities == {[uniqueid |-> "a", uniqueidtype |-> "CUSIP"],
                  [uniqueid |-> "b", uniqueidtype |-> "CUSIP"]}

KnownSecurities == {[uniqueid |-> "a", uniqueidtype |-> "CUSIP"],
                    [uniqueid |-> "a", uniqueidtype |-> "ISIN"]}

\* the currency aggregates of a transaction: none, one of the two, or both
CurrencyChoices == {"none", "CURRENCY", "ORIGCURRENCY", "both"}

CURRENCY_el == Agg("CURRENCY", <<Leaf("CURRATE", "1"), Leaf("CURSYM", "USD")>>)

ORIGCURRENCY_el == Agg("ORIGCURRENCY", <<Leaf("CURRATE", "2"), Leaf("CURSYM", "EUR")>>)

Currencies(cur) ==
    CASE cur = "CURRENCY"     -> <<CURRENCY_el>>
      [] cur = "ORIGCURRENCY" -> <<ORIGCURRENCY_el>>
      [] cur = "both"         -> <<CURRENCY_el, ORIGCURRENCY_el>>
      [] OTHER                -> <<>>

SECID_el(sec) ==
    Agg("SECID", <<Leaf("UNIQUEID", sec.uniqueid), Leaf("UNIQUEIDTYPE", sec.uniqueidtype)>>)

INVTRAN_el == Agg("INVTRAN", <<Leaf("FITID", "t")>>)

PAYEE_el == Agg("PAYEE", <<Leaf("NAME", "a"), Leaf("ADDR1", "a")>>)

BANKACCTTO_el ==
    Agg("BANKACCTTO", <<Leaf("BANKID", "a"), Leaf("ACCTID", "a"), Leaf("ACCTTYPE", "a")>>)

CCACCTTO_el == Agg("CCACCTTO", <<Leaf("ACCTID", "a")>>)

\* the sub-aggregates of a bank transaction
Counterparties == {<<>>, <<PAYEE_el>>, <<BANKACCTTO_el>>, <<CCACCTTO_el>>}

BUYSTOCK_el(sec, cur) ==
    Agg("BUYSTOCK",
        <<Agg("INVBUY", <<INVTRAN_el, SECID_el(sec), Leaf("TOTAL", "1")>> \o Currencies(cur)),
          Leaf("BUYTYPE", "BUY")>>)

INCOME_el(sec, cur) ==
    Agg("INCOME", <<INVTRAN_el, SECID_el(sec), Leaf("TOTAL", "1")>> \o Currencies(cur))

MARGININTEREST_el(cur) ==
    Agg("MARGININTEREST", <<INVTRAN_el, Leaf("TOTAL", "1")>> \o Currencies(cur))

POSSTOCK_el(sec) ==
    Agg("POSSTOCK", <<Agg("INVPOS", <<SECID_el(sec), Leaf("MKTVAL", "1")>>)>>)

STMTTRN_el(others, cur) ==
    Agg("STMTTRN", <<Leaf("FITID", "t"), Leaf("TRNAMT", "1")>> \o others \o Currencies(cur))

\* elements whose tag names no aggregate of the schema: a tag the module does not
\* define, and the names of mixins
Strays ==
    {Agg(tag, <<>>) : tag \in {"FOO", "CURRENCY", "SECID", "INVBUY", "BANKTRAN"}}
    \cup {Agg("BANKTRAN", kids) : kids \in {<<PAYEE_el>>, <<Leaf("FITID", "t")>>}}

\* the documents a caller binds
Trees ==
    {BUYSTOCK_el(sec, "none") : sec \in DocSecurities}
    \cup {INCOME_el(sec, "none") : sec \in DocSecurities}
    \cup {BUYSTOCK_el([uniqueid |-> "a", uniqueidtype |-> "CUSIP"], cur) : cur \in CurrencyChoices}
    \cup {INCOME_el([uniqueid |-> "a", uniqueidtype |-> "CUSIP"], cur) : cur \in CurrencyChoices}
    \cup {MARGININTEREST_el(cur) : cur \in {"none", "both"}}
    \cup {POSSTOCK_el(sec) : sec \in DocSecurities}
    \cup {STMTTRN_el(<<>>, cur) : cur \in CurrencyChoices}
    \cup {STMTTRN_el(others, "none") : others \in Counterparties}
    \cup Strays

\* ------------------------------------------------------------------ actions
\* the interpreters the program runs on: ElementTree in Python or in C, assert
\* statements executed or compiled away (python -O)
Builds == {[etree |-> e, asserts |-> a] : e \in {"py", "c"}, a \in BOOLEAN}

\* DBSession = scoped_session(sessionmaker()): an empty session; no document yet
InitSession ==
    /\ ents = <<>>
    /\ failed = FALSE
    /\ calls = {}
    /\ binders = <<>>
    /\ doc = NoTree
    /\ docOrig = NoTree
    /\ last = [op |-> "init", tried |-> "-"]

Init == InitSession /\ build \in Builds

\* the operations of the session do not depend on the interpreter
InitStore == InitSession /\ build = [etree |-> "c", asserts |-> TRUE]

\* the session after a call, and the call in the history when it returned
Record(op, cls, attrs, r) ==
    /\ ents' = r.ents
    /\ failed' = r.failed
    /\ calls' = IF r.err = ""
                THEN calls \cup {[cls |-> cls,
                                  pk |-> Restrict(attrs, primary_keys(cls)), ret |-> r.ret]}
                ELSE calls
    /\ last' = [op |-> op, cls |-> cls, attrs |-> attrs, err |-> r.err, ret |-> r.ret,
                msg |-> IF "msg" \in DOMAIN r THEN r.msg ELSE <<>>,
                created |-> Len(r.ents) > Len(ents), tried |-> last.tried]
    /\ UNCHANGED <<doc, docOrig, build, binders>>

\* a caller's cls.get(**attrs)
Get ==
    \E cls \in GetClasses : \E attrs \in ArgsOf(cls) :
        LET r == get(cls, attrs, ents, failed)
        IN  /\ Len(r.ents) = Len(ents)
            /\ Record("get", cls, attrs, r)

\* a caller's cls.get_or_create(**attrs)
GetOrCreate ==
    \E cls \in StoreClasses : \E attrs \in ArgsOf(cls) :
        LET r == get_or_create(cls, attrs, ents, failed)
        IN  /\ Len(r.ents) <= MaxEnts
            /\ Record("get_or_create", cls, attrs, r)

\* the caller flushes or commits the session
CallerFlush ==
    /\ ~failed
    /\ \E i \in 1..Len(ents) : ents[i].state = "pending"
    /\ LET f == Flush(ents)
       IN  /\ ents' = f.ents
           /\ failed' = ~f.ok
           /\ last' = [op |-> "flush", err |-> IF f.ok THEN "" ELSE "IntegrityError",
                       tried |-> last.tried]
    /\ UNCHANGED <<calls, doc, docOrig, build, binders>>

\* the result of a binding in the session, the document and the history
Binding(r, prev) ==
    /\ Len(r.ents) <= MaxEnts
    /\ ents' = r.ents
    /\ failed' = r.failed
    /\ doc' = r.el
    /\ last' = [op |-> "bind", cls |-> docOrig'.tag, err |-> r.err, inst |-> r.inst,
                hooks |-> r.hooks, access |-> r.access, prev |-> prev, tried |-> r.err]
    /\ UNCHANGED <<calls, build, binders>>

\* a caller parses a document and hands it to Aggregate.from_etree
Bind ==
    \E t \in Trees :
        /\ docOrig' = t
        /\ Binding(from_etree(t, EmptyMap, FALSE, ents, failed, build), "-")

\* a caller hands the element of a binding that failed to Aggregate.from_etree again
Rebind ==
    /\ last.tried \notin {"-", ""}
    /\ docOrig' = docOrig
    /\ Binding(from_etree(doc, EmptyMap, FALSE, ents, failed, build), last.tried)

\* a caller adds a security to the session
RegisterSecurity ==
    \E sec \in KnownSecurities : \E cls \in {"STOCKINFO"} :
        /\ ~failed
        /\ Len(ents) < MaxEnts
        /\ \A i \in 1..Len(ents) : ~(ents[i].cls \in SecinfoClasses /\ Key(ents[i]) = sec)
        /\ ents' = SessionAdd(ents, Construct(cls, sec).obj)
        /\ last' = [op |-> "register", tried |-> last.tried]
        /\ UNCHANGED <<failed, calls, doc, docOrig, build, binders>>

NextStore == Get \/ GetOrCreate \/ CallerFlush

SpecStore == InitStore /\ [][NextStore]_vars

NextBind == Bind \/ Rebind \/ RegisterSecurity

SpecBind == Init /\ [][NextBind]_vars

\* ------------------------------------------------------------------ claims
\* C1: two calls on one schema that returned: with identical natural-key attributes
\* they returned the same entity, with natural keys that differ in some attribute
\* they returned two distinct entities.
C1_SameKeySameEntity ==
    \A c1, c2 \in calls :
        c1.cls = c2.cls => ((c1.pk = c2.pk) <=> (c1.ret = c2.ret))

\* a second get_or_create with a key used before returned the entity of the first,
\* and a call of the same schema with another key returned
C1_Witness ==
    /\ last.op = "get_or_create" /\ last.err = "" /\ ~last.created
    /\ \E c1, c2 \in calls :
          /\ c1.cls = last.cls /\ c2.cls = last.cls
          /\ c1.ret = last.ret /\ c2.pk # c1.pk

\* C2: the session (pending and persistent) holds at most one entity per schema and
\* natural key, and every call that returned, returned the entity of its schema
\* that carries the key it was called with.
C2_OnePerKey ==
    /\ \A i, j \in 1..Len(ents) :
          (ents[i].cls = ents[j].cls /\ Key(ents[i]) = Key(ents[j])) => i = j
    /\ \A c \in calls :
          /\ c.ret \in 1..Len(ents)
          /\ ents[c.ret].cls \in Polymorphic(c.cls)
          /\ Restrict(ents[c.ret].attrs, DOMAIN c.pk) = c.pk

\* a session with two entities of one schema, after a get that found one of them
C2_Witness ==
    /\ last.op = "get" /\ last.err = ""
    /\ \E i, j \in 1..Len(ents) : i # j /\ ents[i].cls = ents[j].cls
                                  /\ ents[last.ret].cls = ents[i].cls

\* ------------------------------------------------------------------ binding claims
\* the (uniqueid, uniqueidtype) of the SECID embedded in a tree
HasSecurity(t) ==
    LET secid == find_descendant(t, "SECID")
    IN  /\ secid # <<>>
        /\ find_child(NodeAt(t, secid), "UNIQUEID") # <<>>
        /\ find_child(NodeAt(t, secid), "UNIQUEIDTYPE") # <<>>

SecurityOf(t) ==
    LET node == NodeAt(t, find_descendant(t, "SECID"))
    IN  [uniqueid |-> NodeAt(node, find_child(node, "UNIQUEID")).text,
         uniqueidtype |-> NodeAt(node, find_child(node, "UNIQUEIDTYPE")).text]

\* the security-master entities of the session, and those with a given key
Securities(es) == {<<i, es[i].cls, es[i].attrs>> : i \in {j \in 1..Len(es) : es[j].cls \in SecinfoClasses}}

Matching(es, sec) == {i \in 1..Len(es) : es[i].cls \in SecinfoClasses /\ Key(es[i]) = sec}

\* the currency aggregates of a tree, wherever they are
HasCURRENCY(t) == find_descendant(t, "CURRENCY") # <<>>

HasORIGCURRENCY(t) == find_descendant(t, "ORIGCURRENCY") # <<>>

\* the discriminator of a bound instance; a column that was not set is null
CurtypeOf(inst) == IF "curtype" \in DOMAIN inst.attrs THEN inst.attrs["curtype"] ELSE NULL

\* C3: a binding in which _do_secid of the SECID trait ran on an element with its
\* SECID intact: when no security-master entity of the session has both the
\* uniqueid and the uniqueidtype of the SECID the binding fails with NoResultFound,
\* when one has it does not, and in either case the security-master entities of
\* the session are the same before and after.
C3_LookupNeverCreates ==
    [][(/\ last'.op = "bind"
        /\ "SECID._do_secid" \in last'.hooks
        /\ HasSecurity(IF last'.prev = "-" THEN docOrig' ELSE doc))
       => LET t == IF last'.prev = "-" THEN docOrig' ELSE doc
          IN  /\ (Matching(ents, SecurityOf(t)) = {}) <=> (last'.err = "NoResultFound")
              /\ Securities(ents') = Securities(ents)]_vars

\* a binding failed with NoResultFound though the session holds a security with the
\* uniqueid of the SECID, under another uniqueidtype
C3_Witness ==
    /\ last.op = "bind" /\ last.err = "NoResultFound"
    /\ "SECID._do_secid" \in last.hooks
    /\ \E i \in 1..Len(ents) :
          /\ ents[i].cls \in SecinfoClasses
          /\ ents[i].attrs["uniqueid"] = SecurityOf(docOrig).uniqueid
          /\ ents[i].attrs["uniqueidtype"] # SecurityOf(docOrig).uniqueidtype

\* C4: a tree that refers to a security and holds at most one currency aggregate,
\* bound for the first time or again after it failed with NoResultFound: while the
\* session holds no security with its key the binding fails with NoResultFound and
\* leaves the tree as it was; once the session holds one, the binding succeeds and
\* the secinfo_id of the instance is the id of that entity.
C4_BindAfterRegister ==
    (/\ last.op = "bind"
     /\ last.prev \in {"-", "NoResultFound"}
     /\ last.cls \in SecidClasses
     /\ HasSecurity(docOrig)
     /\ ~(HasCURRENCY(docOrig) /\ HasORIGCURRENCY(docOrig)))
    => IF Matching(ents, SecurityOf(docOrig)) = {}
       THEN last.err = "NoResultFound" /\ doc = docOrig /\ last.inst = NoInst
       ELSE /\ last.err = ""
            /\ \A i \in Matching(ents, SecurityOf(docOrig)) :
                  ents[i].id >= 1 /\ last.inst.attrs["secinfo_id"] = ents[i].id

\* the tree that failed with NoResultFound was bound again after its security was
\* registered, and the instance refers to it
C4_Witness ==
    /\ last.op = "bind" /\ last.prev = "NoResultFound" /\ last.err = ""
    /\ \E i \in Matching(ents, SecurityOf(docOrig)) :
          last.inst.attrs["secinfo_id"] = ents[i].id

\* C5: the first binding of a tree of a schema with the ORIGCURRENCY trait that holds
\* both a CURRENCY and an ORIGCURRENCY aggregate, unless the resolution of its
\* security fails first (NoResultFound, or the TypeError of INVTRAN._do_secid),
\* fails with ValueError and constructs no instance.
C5_BothCurrenciesRejected ==
    (/\ last.op = "bind" /\ last.prev = "-"
     /\ last.cls \in OrigcurrencyClasses \cap SchemaClasses
     /\ HasCURRENCY(docOrig) /\ HasORIGCURRENCY(docOrig)
     /\ "ORIGCURRENCY._do_origcurrency" \in last.hooks \/ last.cls \in BanktranClasses)
    => last.err = "ValueError" /\ last.inst = NoInst

\* C6: the first binding of a tree of a schema with the ORIGCURRENCY trait that holds
\* at most one of CURRENCY and ORIGCURRENCY, when it succeeds: curtype of the
\* instance is the tag of the one present, and null when neither is.
C6_CurtypeIsTagPresent ==
    (/\ last.op = "bind" /\ last.prev = "-" /\ last.err = ""
     /\ last.cls \in OrigcurrencyClasses \cap SchemaClasses
     /\ ~(HasCURRENCY(docOrig) /\ HasORIGCURRENCY(docOrig)))
    => CurtypeOf(last.inst) = IF HasCURRENCY(docOrig) THEN "CURRENCY"
                              ELSE IF HasORIGCURRENCY(docOrig) THEN "ORIGCURRENCY"
                              ELSE NULL

\* C10: a binding of an element whose tag names no aggregate of the schema fails
\* where the class is resolved (KeyError, AttributeError), returns no instance,
\* runs no hook and does not query the session.
C10_UnknownTagFailsFirst ==
    (last.op = "bind" /\ last.cls \notin SchemaClasses \cup GroupingClasses)
    => /\ last.err \in {"KeyError", "AttributeError"}
       /\ last.inst = NoInst
       /\ last.hooks = {}
       /\ ~last.access

\* ------------------------------------------------------------------ models/email.py
MaxItems == 3

Scalar(name, type, required) ==
    [name |-> name, kind |-> "scalar", type |-> type, of |-> "", required |-> required]

SubAggregate(name, of, required) ==
    [name |-> name, kind |-> "sub", type |-> "", of |-> of, required |-> required]

NoMember == [name |-> "", kind |-> "", type |-> "", of |-> "", required |-> FALSE]

\* mutant: MAIL declares frm without required=True
MAIL_spec_FrmOptional ==
    <<Scalar("userid", "String", TRUE), Scalar("dtcreated", "DateTime", TRUE),
      Scalar("frm", "String", FALSE), Scalar("to", "String", TRUE),
      Scalar("subject", "String", TRUE), Scalar("msgbody", "String", TRUE),
      Scalar("incimages", "Bool", TRUE), Scalar("usehtml", "Bool", TRUE)>>

MAIL_spec ==
    <<Scalar("userid", "String", TRUE), Scalar("dtcreated", "DateTime", TRUE),
      Scalar("frm", "String", TRUE), Scalar("to", "String", TRUE),
      Scalar("subject", "String", TRUE), Scalar("msgbody", "String", TRUE),
      Scalar("incimages", "Bool", TRUE), Scalar("usehtml", "Bool", TRUE)>>

\* the envelopes of wrapperbases: a request has a transaction id and an optional
\* client cookie; a response a transaction id and a status; a sync list a token
\* and, in a request, the flag that rejects a stale one
TrnRq_spec == <<Scalar("trnuid", "String", TRUE), Scalar("cltcookie", "String", FALSE)>>

TrnRs_spec == <<Scalar("trnuid", "String", TRUE), SubAggregate("status", "STATUS", TRUE)>>

STATUS_spec ==
    <<Scalar("code", "String", TRUE), Scalar("severity", "String", TRUE),
      Scalar("message", "String", FALSE)>>

SyncRqList_spec ==
    <<Scalar("token", "String", FALSE), Scalar("rejectifmissing", "Bool", TRUE)>>

SyncRsList_spec == <<Scalar("token", "String", TRUE)>>

\* the profile aggregates of the message-set tests, member by member in the order
\* and with the types testConvert shows; the tests do not show which are required
XFERPROF_spec ==
    <<Scalar("procdaysoff", "Unsupported", FALSE), Scalar("procendtm", "Time", FALSE),
      Scalar("cansched", "Bool", FALSE), Scalar("canrecur", "Bool", FALSE),
      Scalar("canmodxfer", "Bool", FALSE), Scalar("canmodmdls", "Bool", FALSE),
      Scalar("modelwnd", "Integer", FALSE), Scalar("dayswith", "Integer", FALSE),
      Scalar("dfldaystopay", "Integer", FALSE)>>

STPCHKPROF_spec ==
    <<Scalar("procdaysoff", "Unsupported", FALSE), Scalar("procendtm", "Time", FALSE),
      Scalar("canuserange", "Bool", FALSE), Scalar("canusedesc", "Bool", FALSE),
      Scalar("stpchkfee", "Decimal", FALSE)>>

EMAILPROF_spec == <<Scalar("canemail", "Bool", FALSE), Scalar("cannotify", "Bool", FALSE)>>

\* mutant: the response envelopes declare their body with required=True
spec_BodyRequired(tag) ==
    CASE tag = "MAIL"         -> MAIL_spec
      [] tag = "MAILRQ"       -> <<SubAggregate("mail", "MAIL", TRUE)>>
      [] tag = "MAILRS"       -> <<SubAggregate("mail", "MAIL", TRUE)>>
      [] tag = "MAILTRNRQ"    -> TrnRq_spec \o <<SubAggregate("mailrq", "MAILRQ", TRUE)>>
      [] tag = "MAILTRNRS"    -> TrnRs_spec \o <<SubAggregate("mailrs", "MAILRS", TRUE)>>
      [] tag = "MAILSYNCRQ"   -> SyncRqList_spec \o <<Scalar("incimages", "Bool", TRUE),
                                                     Scalar("usehtml", "Bool", TRUE)>>
      [] tag = "MAILSYNCRS"   -> SyncRsList_spec
      [] tag = "GETMIMERQ"    -> <<Scalar("url", "String", TRUE)>>
      [] tag = "GETMIMERS"    -> <<Scalar("url", "String", TRUE)>>
      [] tag = "GETMIMETRNRQ" -> TrnRq_spec \o <<SubAggregate("getmimerq", "GETMIMERQ", TRUE)>>
      [] tag = "GETMIMETRNRS" -> TrnRs_spec \o <<SubAggregate("getmimers", "GETMIMERS", TRUE)>>
      [] tag = "STATUS"       -> STATUS_spec
      [] tag = "XFERPROF"     -> XFERPROF_spec
      [] tag = "STPCHKPROF"   -> STPCHKPROF_spec
      [] tag = "EMAILPROF"    -> EMAILPROF_spec
      [] OTHER                -> <<>>

\* the members a class declares, those of its bases first
spec(tag) ==
    CASE tag = "MAIL"         -> MAIL_spec
      [] tag = "MAILRQ"       -> <<SubAggregate("mail", "MAIL", TRUE)>>
      [] tag = "MAILRS"       -> <<SubAggregate("mail", "MAIL", TRUE)>>
      [] tag = "MAILTRNRQ"    -> TrnRq_spec \o <<SubAggregate("mailrq", "MAILRQ", TRUE)>>
      [] tag = "MAILTRNRS"    -> TrnRs_spec \o <<SubAggregate("mailrs", "MAILRS", FALSE)>>
      [] tag = "MAILSYNCRQ"   -> SyncRqList_spec \o <<Scalar("incimages", "Bool", TRUE),
                                                     Scalar("usehtml", "Bool", TRUE)>>
      [] tag = "MAILSYNCRS"   -> SyncRsList_spec
      [] tag = "GETMIMERQ"    -> <<Scalar("url", "String", TRUE)>>
      [] tag = "GETMIMERS"    -> <<Scalar("url", "String", TRUE)>>
      [] tag = "GETMIMETRNRQ" -> TrnRq_spec \o <<SubAggregate("getmimerq", "GETMIMERQ", TRUE)>>
      [] tag = "GETMIMETRNRS" -> TrnRs_spec \o <<SubAggregate("getmimers", "GETMIMERS", FALSE)>>
      [] tag = "STATUS"       -> STATUS_spec
      [] tag = "XFERPROF"     -> XFERPROF_spec
      [] tag = "STPCHKPROF"   -> STPCHKPROF_spec
      [] tag = "EMAILPROF"    -> EMAILPROF_spec
      [] OTHER                -> <<>>

\* mutant: a list aggregate that lets every envelope in
dataTags_Any(tag) ==
    IF tag \in {"EMAILMSGSRQV1", "EMAILMSGSRSV1", "MAILSYNCRQ", "MAILSYNCRS"}
    THEN {"MAILTRNRQ", "GETMIMETRNRQ", "MAILSYNCRQ", "MAILTRNRS", "GETMIMETRNRS", "MAILSYNCRS"}
    ELSE {}

\* the tags a list aggregate may contain; no tag for a class that is no list
dataTags(tag) ==
    CASE tag = "MAILSYNCRQ"    -> {"MAILTRNRQ"}
      [] tag = "MAILSYNCRS"    -> {"MAILTRNRS"}
      [] tag = "EMAILMSGSRQV1" -> {"MAILTRNRQ", "GETMIMETRNRQ", "MAILSYNCRQ"}
      [] tag = "EMAILMSGSRSV1" -> {"MAILTRNRS", "GETMIMETRNRS", "MAILSYNCRS"}
      [] OTHER                 -> {}

ListClasses == {"EMAILMSGSRQV1", "EMAILMSGSRSV1", "MAILSYNCRQ", "MAILSYNCRS"}

MemberClasses ==
    {"MAIL", "MAILRQ", "MAILRS", "MAILTRNRQ", "MAILTRNRS", "MAILSYNCRQ", "MAILSYNCRS",
     "GETMIMERQ", "GETMIMERS", "GETMIMETRNRQ", "GETMIMETRNRS", "STATUS"}

\* the profile classes of the message-set tests
ProfileClasses == {"XFERPROF", "STPCHKPROF", "EMAILPROF"}

\* the classes Aggregate.from_etree finds by tag
Registry == ListClasses \cup MemberClasses \cup ProfileClasses

\* the tag of the child that holds a member: the name of the member in capitals
MemberTag ==
    [userid |-> "USERID", dtcreated |-> "DTCREATED", frm |-> "FRM", to |-> "TO",
     subject |-> "SUBJECT", msgbody |-> "MSGBODY", incimages |-> "INCIMAGES",
     usehtml |-> "USEHTML", mail |-> "MAIL", mailrq |-> "MAILRQ", mailrs |-> "MAILRS",
     trnuid |-> "TRNUID", cltcookie |-> "CLTCOOKIE", status |-> "STATUS", code |-> "CODE",
     severity |-> "SEVERITY", message |-> "MESSAGE", token |-> "TOKEN",
     rejectifmissing |-> "REJECTIFMISSING", url |-> "URL", getmimerq |-> "GETMIMERQ",
     getmimers |-> "GETMIMERS", procdaysoff |-> "PROCDAYSOFF", procendtm |-> "PROCENDTM",
     cansched |-> "CANSCHED", canrecur |-> "CANRECUR", canmodxfer |-> "CANMODXFER",
     canmodmdls |-> "CANMODMDLS", modelwnd |-> "MODELWND", dayswith |-> "DAYSWITH",
     dfldaystopay |-> "DFLDAYSTOPAY", canuserange |-> "CANUSERANGE",
     canusedesc |-> "CANUSEDESC", stpchkfee |-> "STPCHKFEE", canemail |-> "CANEMAIL",
     cannotify |-> "CANNOTIFY"]

\* the member of a class that a child tag names, NoMember when it names none
MemberOf(cls, tag) ==
    LET hits == {i \in 1..Len(spec(cls)) : MemberTag[spec(cls)[i].name] = tag}
    IN  IF hits = {} THEN NoMember ELSE spec(cls)[CHOOSE i \in hits : TRUE]

MemberNames(cls) == {spec(cls)[i].name : i \in 1..Len(spec(cls))}

\* mutant: every child tagged FROM is renamed, as the docstring of MAIL.groom says
groom_All(elem) ==
    IF elem.tag = "MAIL"
    THEN [elem EXCEPT !.kids = [i \in 1..Len(@) |->
              IF @[i].tag = "FROM" THEN [@[i] EXCEPT !.tag = "FRM"] ELSE @[i]]]
    ELSE elem

\* MAIL.groom: a copy of the element in which the first child tagged FROM is tagged
\* FRM; the groom of every other class changes nothing
groom(elem) ==
    LET frm == find_child(elem, "FROM")
    IN  IF elem.tag = "MAIL" /\ frm # <<>>
        THEN [elem EXCEPT !.kids[frm[1]].tag = "FRM"]
        ELSE elem

\* MAIL.ungroom: a copy of the element in which the first child tagged FRM is tagged
\* FROM; the ungroom of every other class changes nothing
ungroom(elem) ==
    LET frm == find_child(elem, "FRM")
    IN  IF elem.tag = "MAIL" /\ frm # <<>>
        THEN [elem EXCEPT !.kids[frm[1]].tag = "FROM"]
        ELSE elem

\* mutant: the copy is the object itself
deepcopy_Alias(heap, ref) == [heap |-> heap, ref |-> ref]

\* copy.deepcopy: a new object of the heap, equal to the one it copies
deepcopy(heap, ref) == [heap |-> Append(heap, heap[ref]), ref |-> Len(heap) + 1]

\* the statements of MAIL.groom after elem = deepcopy(elem): they tag the object
\* that elem names now
MAIL_groom_on(c) == [heap |-> [c.heap EXCEPT ![c.ref] = groom(@)], ret |-> c.ref]

MAIL_ungroom_on(c) == [heap |-> [c.heap EXCEPT ![c.ref] = ungroom(@)], ret |-> c.ref]

\* MAIL.groom and MAIL.ungroom called with the object ref of the heap
MAIL_groom(heap, ref) == MAIL_groom_on(deepcopy(heap, ref))

MAIL_ungroom(heap, ref) == MAIL_ungroom_on(deepcopy(heap, ref))

\* mutant: a Bool that takes every literal but "Y" for false
Convert_BoolLenient(type, text) ==
    IF type = "Bool"
    THEN IF text = "Y" THEN [err |-> "", val |-> "True"] ELSE [err |-> "", val |-> "False"]
    ELSE IF type = "Unsupported" THEN [err |-> "", val |-> NULL]
    ELSE [err |-> "", val |-> text]

\* mutant: an Unsupported member that keeps its text
Convert_UnsupportedKept(type, text) ==
    IF type = "Bool"
    THEN IF text = "Y" THEN [err |-> "", val |-> "True"]
         ELSE IF text = "N" THEN [err |-> "", val |-> "False"]
         ELSE [err |-> "ValueTypeError", val |-> NULL]
    ELSE [err |-> "", val |-> text]

\* a field type reads the text of a child: Bool knows two literals, Unsupported
\* takes any text and makes nothing of it
Convert(type, text) ==
    IF type = "Bool"
    THEN IF text = "Y" THEN [err |-> "", val |-> "True"]
         ELSE IF text = "N" THEN [err |-> "", val |-> "False"]
         ELSE [err |-> "ValueTypeError", val |-> NULL]
    ELSE IF type = "Unsupported" THEN [err |-> "", val |-> NULL]
    ELSE [err |-> "", val |-> text]

\* ------------------------------------------------------------------ models/base.py
\* an instance: its class, its members and, for a list, its items in order
NoObject == [tag |-> "", attrs |-> EmptyMap, items |-> <<>>]

Failure(err, named) == [err |-> err, named |-> named, inst |-> NoObject]

Success(inst) == [err |-> "", named |-> "", inst |-> inst]

\* every required member is there, else the first one missing is named
validate(cls, inst) ==
    LET missing == {i \in 1..Len(spec(cls)) :
                       spec(cls)[i].required /\ spec(cls)[i].name \notin DOMAIN inst.attrs}
    IN  IF missing = {} THEN Success(inst)
        ELSE Failure("MissingRequiredError",
                     spec(cls)[CHOOSE i \in missing : \A j \in missing : i <= j].name)

SetMember(inst, name, val) == [inst EXCEPT !.attrs = Merge(@, [n \in {name} |-> val])]

\* mutant: a list that puts each item before those it holds
AppendItem_Front(inst, item) == [inst EXCEPT !.items = <<item>> \o @]

\* list.append
AppendItem(inst, item) == [inst EXCEPT !.items = Append(@, item)]

RECURSIVE base_from_etree(_)
RECURSIVE bind_children(_, _, _, _)

\* a scalar member, v what its type made of the text; a member that came out as
\* nothing stays absent
bind_scalar(cls, kids, i, inst, m, v) ==
    IF v.err # "" THEN Failure(v.err, m.name)
    ELSE IF v.val = NULL THEN bind_children(cls, kids, i + 1, inst)
    ELSE bind_children(cls, kids, i + 1, SetMember(inst, m.name, v.val))

\* a sub-aggregate member, r the binding of the child
bind_sub(cls, kids, i, inst, m, r) ==
    IF r.err # "" THEN r
    ELSE bind_children(cls, kids, i + 1, SetMember(inst, m.name, r.inst))

\* an item of a list, r the binding of the child
bind_item(cls, kids, i, inst, r) ==
    IF r.err # "" THEN r
    ELSE bind_children(cls, kids, i + 1, AppendItem(inst, r.inst))

\* the i-th child: a member m of the class, an item of the list, or not allowed here
bind_child(cls, kids, i, inst, m) ==
    IF m.kind = "scalar"
    THEN bind_scalar(cls, kids, i, inst, m, Convert(m.type, kids[i].text))
    ELSE IF m.kind = "sub"
    THEN bind_sub(cls, kids, i, inst, m, base_from_etree(kids[i]))
    ELSE IF kids[i].tag \in dataTags(cls)
    THEN bind_item(cls, kids, i, inst, base_from_etree(kids[i]))
    ELSE Failure("InvalidContainmentError", kids[i].tag)

\* the children in the order of the input, then the validation
bind_children(cls, kids, i, inst) ==
    IF i > Len(kids) THEN validate(cls, inst)
    ELSE bind_child(cls, kids, i, inst, MemberOf(cls, kids[i].tag))

\* Aggregate.from_etree of models/base.py
base_from_etree(elem) ==
    IF elem.tag \notin Registry THEN Failure("UnknownAggregateError", elem.tag)
    ELSE bind_children(elem.tag, groom(elem).kids, 1,
                       [tag |-> elem.tag, attrs |-> EmptyMap, items |-> <<>>])

\* ------------------------------------------------------------------ email inputs
\* the tag a member has in a document: FROM is the specification's name of frm
DocTag(name) == IF name = "frm" THEN "FROM" ELSE MemberTag[name]

SampleText(type) == IF type = "Bool" THEN "Y" ELSE "s"

\* a document of a class with every member it declares, and no items
RECURSIVE SampleOf(_)
SampleOf(cls) ==
    Agg(cls, [i \in 1..Len(spec(cls)) |->
                 IF spec(cls)[i].kind = "scalar"
                 THEN Leaf(DocTag(spec(cls)[i].name), SampleText(spec(cls)[i].type))
                 ELSE SampleOf(spec(cls)[i].of)])

\* the document without the child of a member
Omit(elem, name) ==
    LET keep(k) == k.tag # DocTag(name)
    IN  [elem EXCEPT !.kids = SelectSeq(@, keep)]

Envelopes ==
    {"MAILTRNRQ", "GETMIMETRNRQ", "MAILSYNCRQ", "MAILTRNRS", "GETMIMETRNRS", "MAILSYNCRS"}

\* the children a caller puts into a list: each envelope whole, a request without
\* its body, a response without its body
ItemPool ==
    {SampleOf(t) : t \in Envelopes}
    \cup {Omit(SampleOf("MAILTRNRQ"), "mailrq"), Omit(SampleOf("MAILTRNRS"), "mailrs")}

SeqsUpTo(S, n) == UNION {[1..k -> S] : k \in 0..n}

\* the members of a list class, then the items
ListOf(cls, items) == Agg(cls, SampleOf(cls).kids \o items)

\* the items of a list document: the children that are no members
ItemsOf(elem) ==
    LET item(k) == MemberOf(elem.tag, k.tag) = NoMember
    IN  SelectSeq(groom(elem).kids, item)

\* ------------------------------------------------------------------ email actions
\* a caller built a list, or a document of a class with one member left out
InitEmail ==
    /\ ents = <<>>
    /\ failed = FALSE
    /\ calls = {}
    /\ binders = <<>>
    /\ build = [etree |-> "c", asserts |-> TRUE]
    /\ \/ \E cls \in ListClasses : \E items \in SeqsUpTo(ItemPool, MaxItems) :
            /\ docOrig = ListOf(cls, items)
            /\ last = [op |-> "input", omitted |-> ""]
       \/ \E cls \in MemberClasses : \E m \in MemberNames(cls) :
            /\ docOrig = Omit(SampleOf(cls), m)
            /\ last = [op |-> "input", omitted |-> m]
    /\ doc = docOrig

\* Aggregate.from_etree(doc); groom works on a copy, the document stays as it is
BindEmail ==
    /\ last.op = "input"
    /\ LET r == base_from_etree(doc)
       IN  last' = [op |-> "from_etree", omitted |-> last.omitted, err |-> r.err,
                    named |-> r.named, inst |-> r.inst]
    /\ UNCHANGED <<ents, failed, calls, doc, docOrig, build, binders>>

NextEmail == BindEmail

SpecEmail == InitEmail /\ [][NextEmail]_vars

C8_AllowedTagsBind ==
    (/\ last.op = "from_etree" /\ last.omitted = ""
     /\ \A i \in 1..Len(ItemsOf(doc)) : ItemsOf(doc)[i].tag \in dataTags(doc.tag))
    => /\ last.err = ""
       /\ Len(last.inst.items) = Len(ItemsOf(doc))
       /\ \A i \in 1..Len(ItemsOf(doc)) : last.inst.items[i].tag = ItemsOf(doc)[i].tag

\* C8: a list whose children all carry allowed tags, each of which binds by itself,
\* binds, and its items are the bindings of the children in the order of the
\* children.
C8_AllowedChildrenBindInOrder ==
    (/\ last.op = "from_etree" /\ last.omitted = ""
     /\ \A i \in 1..Len(ItemsOf(doc)) :
           /\ ItemsOf(doc)[i].tag \in dataTags(doc.tag)
           /\ base_from_etree(ItemsOf(doc)[i]).err = "")
    => /\ last.err = ""
       /\ Len(last.inst.items) = Len(ItemsOf(doc))
       /\ \A i \in 1..Len(ItemsOf(doc)) :
             /\ last.inst.items[i].tag = ItemsOf(doc)[i].tag
             /\ last.inst.items[i] = base_from_etree(ItemsOf(doc)[i]).inst

\* three requests in another order than dataTags names them, one tag twice, bound
C8_Witness ==
    /\ last.op = "from_etree" /\ last.err = ""
    /\ doc.tag = "EMAILMSGSRQV1"
    /\ Len(last.inst.items) = 3
    /\ last.inst.items[1].tag = "MAILSYNCRQ"
    /\ last.inst.items[2].tag = "MAILTRNRQ"
    /\ last.inst.items[3].tag = "MAILSYNCRQ"

\* C9: a document of a class with every member but m: when m is required the
\* binding fails with MissingRequiredError naming m and returns no instance; when m
\* is optional it succeeds, m is absent and every other member is what the whole
\* document binds to.  All eight members of MAIL are required.
C9_RequiredMembers ==
    /\ MemberNames("MAIL") = {"userid", "dtcreated", "frm", "to", "subject", "msgbody",
                              "incimages", "usehtml"}
    /\ (last.op = "from_etree" /\ last.omitted # "")
       => IF doc.tag = "MAIL" \/ MemberOf(doc.tag, MemberTag[last.omitted]).required
          THEN /\ last.err = "MissingRequiredError"
               /\ last.named = last.omitted
               /\ last.inst = NoObject
          ELSE /\ last.err = ""
               /\ last.omitted \notin DOMAIN last.inst.attrs
               /\ last.inst.attrs =
                     Restrict(base_from_etree(SampleOf(doc.tag)).inst.attrs,
                              MemberNames(doc.tag) \ {last.omitted})

\* a MAIL without FROM failed naming frm
C9_Witness ==
    /\ last.op = "from_etree" /\ doc.tag = "MAIL" /\ last.omitted = "frm"
    /\ last.err = "MissingRequiredError" /\ last.named = "frm"

\* C16: a response envelope (MAILTRNRS, GETMIMETRNRS) without its body binds, and
\* the body member of the instance is absent; a request envelope (MAILTRNRQ,
\* GETMIMETRNRQ) without its body fails with MissingRequiredError, which names the
\* body.
C16_BodyOptionalInResponse ==
    last.op = "from_etree"
    => /\ \A e \in {<<"MAILTRNRS", "mailrs">>, <<"GETMIMETRNRS", "getmimers">>} :
             (doc.tag = e[1] /\ last.omitted = e[2])
             => /\ last.err = ""
                /\ last.inst.tag = e[1]
                /\ DOMAIN last.inst.attrs = {"trnuid", "status"}
       /\ \A e \in {<<"MAILTRNRQ", "mailrq">>, <<"GETMIMETRNRQ", "getmimerq">>} :
             (doc.tag = e[1] /\ last.omitted = e[2])
             => /\ last.err = "MissingRequiredError"
                /\ last.named = e[2]
                /\ last.inst = NoObject

\* a GETMIMETRNRS with transaction id and status and no GETMIMERS was bound
C16_Witness ==
    /\ last.op = "from_etree" /\ doc.tag = "GETMIMETRNRS" /\ last.omitted = "getmimers"
    /\ find_child(doc, "GETMIMERS") = <<>>
    /\ last.err = "" /\ "getmimers" \notin DOMAIN last.inst.attrs
    /\ last.inst.attrs["status"].tag = "STATUS"

\* ------------------------------------------------------------------ field types
\* the literals a caller writes into a Bool member and into an Unsupported member
BoolTexts == {"Y", "N", "y", "1"}

AnyTexts == {"SUNDAY", "Y", "x"}

VariedTexts(type) ==
    IF type = "Bool" THEN BoolTexts
    ELSE IF type = "Unsupported" THEN AnyTexts
    ELSE {SampleText(type)}

\* the texts of the first i members of a class, in every combination
RECURSIVE TextsFor(_, _)
TextsFor(cls, i) ==
    IF i = 0 THEN {<<>>}
    ELSE {Append(q, t) : q \in TextsFor(cls, i - 1), t \in VariedTexts(spec(cls)[i].type)}

\* the documents of a class with every member it declares
TypedDocs(cls) ==
    {Agg(cls, [i \in 1..Len(spec(cls)) |-> Leaf(DocTag(spec(cls)[i].name), q[i])]) :
        q \in TextsFor(cls, Len(spec(cls)))}

TypedClasses == {"MAIL", "EMAILPROF", "XFERPROF", "STPCHKPROF"}

InitTypes ==
    /\ ents = <<>>
    /\ failed = FALSE
    /\ calls = {}
    /\ binders = <<>>
    /\ build = [etree |-> "c", asserts |-> TRUE]
    /\ docOrig \in UNION {TypedDocs(cls) : cls \in TypedClasses}
    /\ doc = docOrig
    /\ last = [op |-> "built"]

\* the result of Aggregate.from_etree(doc) in the history
Typed(r) ==
    /\ last' = [op |-> "typed", err |-> r.err, named |-> r.named, inst |-> r.inst]
    /\ UNCHANGED <<ents, failed, calls, doc, docOrig, build, binders>>

BindTyped == last.op = "built" /\ Typed(base_from_etree(doc))

NextTypes == BindTyped

SpecTypes == InitTypes /\ [][NextTypes]_vars

\* the children of a document that hold a member of a type, by position
KidsOfType(elem, type) ==
    {i \in 1..Len(elem.kids) : MemberOf(elem.tag, groom(elem).kids[i].tag).type = type}

NameAt(elem, i) == MemberOf(elem.tag, groom(elem).kids[i].tag).name

\* C17: a document whose Bool members all read "Y" or "N" binds, and each of them
\* is true for "Y" and false for "N"; a document with another literal in a Bool
\* member does not bind: the error is ValueTypeError and names the first such member.
C17_BoolLiterals ==
    last.op = "typed"
    => LET bools == KidsOfType(doc, "Bool")
           bad == {i \in bools : doc.kids[i].text \notin {"Y", "N"}}
       IN  IF bad = {}
           THEN /\ last.err = ""
                /\ \A i \in bools :
                      last.inst.attrs[NameAt(doc, i)] =
                          IF doc.kids[i].text = "Y" THEN "True" ELSE "False"
           ELSE /\ last.err = "ValueTypeError"
                /\ last.inst = NoObject
                /\ last.named = NameAt(doc, CHOOSE i \in bad : \A j \in bad : i <= j)

\* a MAIL with INCIMAGES "N" and USEHTML "Y" was bound: false and true
C17_Witness ==
    /\ last.op = "typed" /\ doc.tag = "MAIL" /\ last.err = ""
    /\ NodeAt(doc, find_child(doc, "INCIMAGES")).text = "N"
    /\ NodeAt(doc, find_child(doc, "USEHTML")).text = "Y"
    /\ last.inst.attrs["incimages"] = "False" /\ last.inst.attrs["usehtml"] = "True"

\* C18: a member typed Unsupported (PROCDAYSOFF of XFERPROF and of STPCHKPROF) takes
\* any text: it is never the member a failed binding names, the document binds
\* when its Bool members do, and in the instance the member is absent.
C18_UnsupportedAbsent ==
    (last.op = "typed" /\ doc.tag \in {"XFERPROF", "STPCHKPROF"})
    => /\ find_child(doc, "PROCDAYSOFF") # <<>>
       /\ last.named # "procdaysoff"
       /\ (\A i \in 1..Len(doc.kids) :
              doc.kids[i].tag \in {"CANSCHED", "CANRECUR", "CANMODXFER", "CANMODMDLS",
                                   "CANUSERANGE", "CANUSEDESC"}
              => doc.kids[i].text \in {"Y", "N"})
          => /\ last.err = ""
             /\ "procdaysoff" \notin DOMAIN last.inst.attrs
             /\ "procendtm" \in DOMAIN last.inst.attrs

\* an XFERPROF with PROCDAYSOFF "SUNDAY", as in the test, was bound without it
C18_Witness ==
    /\ last.op = "typed" /\ doc.tag = "XFERPROF" /\ last.err = ""
    /\ NodeAt(doc, find_child(doc, "PROCDAYSOFF")).text = "SUNDAY"
    /\ "procdaysoff" \notin DOMAIN last.inst.attrs
    /\ last.inst.attrs["cansched"] = "True"

\* ------------------------------------------------------------------ mutual funds
\* how many rows an asset-class list of a document holds at most
MaxRows == 2

\* Element.append(child)
AppendChild(e, child) == [e EXCEPT !.kids = Append(@, child)]

\* instance.id: None (0) for a transient or pending instance
IdOf(r) == IF r.inst.ent = 0 THEN 0 ELSE r.ents[r.inst.ent].id

\* what a from_etree of a class hands back: the result of Aggregate.from_etree and
\* the rows bound after it, in the order they were bound
Rows(r, rows) ==
    [err |-> r.err, inst |-> r.inst, el |-> r.el, ents |-> r.ents, failed |-> r.failed,
     hooks |-> r.hooks, access |-> r.access, rows |-> rows]

\* MFINFO.from_etree, lines 419-422: the MFASSETCLASS found at path mf is saved in
\* mfassetclasses and removed
MFINFO_detach_mf(elem, mf) ==
    IF mf = <<>> THEN [el |-> elem, lists |-> <<>>, err |-> ""]
    ELSE [el |-> RemoveAt(elem, mf), lists |-> <<NodeAt(elem, mf)>>, err |-> ""]

\* MFINFO.from_etree, lines 423-426: the FIMFASSETCLASS found at path fi is appended
\* to the element mfassetclass (None.append raises AttributeError), not to the list
\* mfassetclasses, and removed
MFINFO_detach_fi(m, elem, mf, fi) ==
    IF fi = <<>> THEN m
    ELSE IF mf = <<>> THEN [m EXCEPT !.err = "AttributeError"]
    ELSE [el |-> RemoveAt(m.el, find_child(m.el, "FIMFASSETCLASS")),
          lists |-> <<AppendChild(m.lists[1], NodeAt(elem, fi))>>, err |-> ""]

\* Aggregate.from_etree(portion, mfinfo_id=instance.id, get_or_create=True)
MFINFO_portion(r, portion, b) ==
    from_etree(portion, [mfinfo_id |-> IdOf(r)], TRUE, r.ents, r.failed, b)

RECURSIVE MFINFO_rows(_, _, _, _)

\* the loop body after the row p is bound: an error ends the call
MFINFO_row(r, portions, i, b, p) ==
    IF p.err # ""
    THEN [r EXCEPT !.err = p.err, !.inst = NoInst, !.ents = p.ents, !.failed = p.failed,
                   !.hooks = @ \cup p.hooks, !.access = @ \/ p.access]
    ELSE MFINFO_rows([r EXCEPT !.ents = p.ents, !.failed = p.failed,
                               !.hooks = @ \cup p.hooks, !.access = @ \/ p.access,
                               !.rows = Append(@, p.inst)],
                     portions, i + 1, b)

\* for portion in mfassetclass
MFINFO_rows(r, portions, i, b) ==
    IF i > Len(portions) THEN r
    ELSE MFINFO_row(r, portions, i, b, MFINFO_portion(r, portions[i], b))

\* MFINFO.from_etree after instance = Aggregate.from_etree(elem, **extra_attrs)
MFINFO_bound(m, r, b) ==
    IF r.err # "" \/ m.lists = <<>> THEN Rows(r, <<>>)
    ELSE MFINFO_rows(Rows(r, <<>>), m.lists[1].kids, 1, b)

\* MFINFO.from_etree after the lists are detached
MFINFO_detached(m, elem, extra_attrs, goc, es, fl, b) ==
    IF m.err # "" THEN Rows(Bound(Ctx(m.el, extra_attrs, es, fl), m.err, NoInst), <<>>)
    ELSE MFINFO_bound(m, from_etree(m.el, extra_attrs, goc, es, fl, b), b)

\* MFINFO.from_etree: both finds come before the removals
MFINFO_from_etree(elem, extra_attrs, goc, es, fl, b) ==
    MFINFO_detached(
        MFINFO_detach_fi(MFINFO_detach_mf(elem, find_child(elem, "MFASSETCLASS")), elem,
                         find_child(elem, "MFASSETCLASS"), find_child(elem, "FIMFASSETCLASS")),
        elem, extra_attrs, goc, es, fl, b)

\* cls.from_etree(element, **extra_attrs): only MFINFO overrides the class method
from_etree_on(cls, element, extra_attrs, goc, es, fl, b) ==
    IF cls = "MFINFO" THEN MFINFO_from_etree(element, extra_attrs, goc, es, fl, b)
    ELSE Rows(from_etree(element, extra_attrs, goc, es, fl, b), <<>>)

\* ------------------------------------------------------------------ inputs
AssetClasses == <<"DOMESTICBOND", "INTLBOND", "LARGESTOCK">>

FiAssetClasses == <<"x", "y", "z">>

PORTION_el(ac) == Agg("PORTION", <<Leaf("ASSETCLASS", ac), Leaf("PERCENT", "50")>>)

FIPORTION_el(ac) == Agg("FIPORTION", <<Leaf("FIASSETCLASS", ac), Leaf("PERCENT", "50")>>)

\* an asset-class list with n rows; no list at all for n = 0
MFASSETCLASS_el(n) ==
    IF n = 0 THEN <<>>
    ELSE <<Agg("MFASSETCLASS", [i \in 1..n |-> PORTION_el(AssetClasses[i])])>>

FIMFASSETCLASS_el(n) ==
    IF n = 0 THEN <<>>
    ELSE <<Agg("FIMFASSETCLASS", [i \in 1..n |-> FIPORTION_el(FiAssetClasses[i])])>>

SECINFO_el(sec) == Agg("SECINFO", <<SECID_el(sec), Leaf("SECNAME", "n")>>)

TheSecurity == [uniqueid |-> "a", uniqueidtype |-> "CUSIP"]

STOCKINFO_el == Agg("STOCKINFO", <<SECINFO_el(TheSecurity)>>)

MFINFO_el(mf, fi) ==
    Agg("MFINFO", <<SECINFO_el(TheSecurity), Leaf("MFTYPE", "OPENEND")>>
                  \o MFASSETCLASS_el(mf) \o FIMFASSETCLASS_el(fi))

\* securities that quote a yield
YieldTexts == {"1", "0"}

STOCKINFO_yield(y) == Agg("STOCKINFO", <<SECINFO_el(TheSecurity), Leaf("YIELD", y)>>)

MFINFO_yield(y) ==
    Agg("MFINFO", <<SECINFO_el(TheSecurity), Leaf("MFTYPE", "OPENEND"), Leaf("YIELD", y)>>)

\* an option, with or without the SECID of its underlying security
OPTINFO_el(underlying) ==
    Agg("OPTINFO", <<SECINFO_el([uniqueid |-> "o", uniqueidtype |-> "CUSIP"]),
                     Leaf("OPTTYPE", "CALL")>>
                   \o IF underlying THEN <<SECID_el(TheSecurity)>> ELSE <<>>)

\* elements that carry the name of a synthetic base class
GroupingTrees ==
    {SECINFO_el(TheSecurity), Agg("ACCTTO", <<Leaf("NAME", "a")>>), Agg("ACCTFROM", <<>>),
     INVTRAN_el, Agg("INVPOS", <<SECID_el(TheSecurity), Leaf("MKTVAL", "1")>>)}

\* a payee without the NAME its natural key needs
PAYEE_anonymous == Agg("PAYEE", <<Leaf("ADDR1", "a")>>)

\* the documents of the security list and of statements that a caller binds
InfoTrees ==
    {MFINFO_el(mf, fi) : mf \in 0..MaxRows, fi \in 0..1}
    \cup {STOCKINFO_el, Agg("FOO", <<>>)}
    \cup GroupingTrees
    \cup {STMTTRN_el(<<p>>, "none") : p \in {PAYEE_el, PAYEE_anonymous}}
    \cup {POSSTOCK_el(TheSecurity)}
    \cup {STOCKINFO_yield(y) : y \in YieldTexts} \cup {MFINFO_yield("1")}
    \cup {OPTINFO_el(u) : u \in BOOLEAN}

\* the classes a caller invokes from_etree on, with the documents it hands each
Callers == {"Aggregate", "MFINFO"}

TreesOf(cls) ==
    IF cls = "MFINFO"
    THEN {t \in InfoTrees : t.tag \in {"MFINFO", "STOCKINFO", "SECINFO"}
                             /\ find_child(t, "YIELD") = <<>>}
    ELSE InfoTrees

\* ------------------------------------------------------------------ actions
InitInfo == InitSession /\ build = [etree |-> "c", asserts |-> TRUE]

\* the result of cls.from_etree(t, get_or_create=goc) in the session, the document
\* and the history
BindingOn(r, t, cls, goc) ==
    /\ Len(r.ents) <= MaxEnts
    /\ ents' = r.ents
    /\ failed' = r.failed
    /\ doc' = r.el
    /\ docOrig' = t
    /\ last' = [op |-> "bind_on", on |-> cls, goc |-> goc, cls |-> t.tag,
                err |-> r.err, inst |-> r.inst, rows |-> r.rows,
                hooks |-> r.hooks, access |-> r.access,
                before |-> Len(ents), tried |-> r.err]
    /\ UNCHANGED <<calls, build, binders>>

\* a caller parses a document and hands it to cls.from_etree, with or without
\* get_or_create=True
BindOn ==
    \E cls \in Callers : \E t \in TreesOf(cls) : \E goc \in BOOLEAN :
        BindingOn(from_etree_on(cls, t, EmptyMap, goc, ents, failed, build), t, cls, goc)

NextInfo == BindOn \/ CallerFlush

SpecInfo == InitInfo /\ [][NextInfo]_vars

\* ------------------------------------------------------------------ dispatch claims
\* C11: whichever class from_etree is invoked on, a binding that succeeds returns an
\* instance of the schema the literal tag of the element names, and no binding
\* constructs an instance of a grouping schema (ACCTFROM, ACCTTO, SECINFO, INVTRAN,
\* INVPOS): none is returned and none is added to the session.
C11_NoGroupingInstance ==
    last.op = "bind_on"
    => /\ last.err = "" => last.inst.cls = docOrig.tag
       /\ last.inst.cls \notin GroupingClasses
       /\ \A i \in 1..Len(ents) : ents[i].cls \notin GroupingClasses

\* C14: a binding, whether it succeeds or fails, leaves the element tree the caller
\* handed in as the caller built it.
C14_InputTreeUnchanged == last.op = "bind_on" => doc = docOrig

\* C15: a binding that raises returns no instance, and the error is the one raised
\* where the binding broke: KeyError of the dispatch for an unknown tag, the
\* NoResultFound of the SECID lookup, the ValueError of the get of a sub-aggregate
\* without its natural key, raised two calls below the caller.  The NoResultFound
\* inside get_or_create is absorbed: the payee is created and the binding of the
\* transaction (without get_or_create=True) succeeds.
C15_ErrorsReachCaller ==
    last.op = "bind_on"
    => /\ last.err # "" => last.inst = NoInst
       /\ docOrig.tag = "FOO" => last.err = "KeyError"
       /\ (docOrig = POSSTOCK_el(TheSecurity) /\ ~failed /\ Matching(ents, TheSecurity) = {})
          => last.err = "NoResultFound"
       /\ docOrig = STMTTRN_el(<<PAYEE_anonymous>>, "none") => last.err = "ValueError"
       /\ (docOrig = STMTTRN_el(<<PAYEE_el>>, "none") /\ ~last.goc /\ Len(ents) > last.before)
          => /\ last.err = ""
             /\ last.inst.cls = "STMTTRN"
             /\ last.inst.attrs["payee_name"] = ents[Len(ents)].attrs["name"]

\* the binding of a statement transaction failed with the ValueError that the get
\* of its payee raised, after the hook of the transaction had begun
C15_Witness ==
    /\ last.op = "bind_on" /\ docOrig = STMTTRN_el(<<PAYEE_anonymous>>, "none")
    /\ last.err = "ValueError" /\ last.inst = NoInst
    /\ "BANKTRAN._preflatten" \in last.hooks

\* the rows of the asset-class lists of a document, in document order
RowsOf(t) ==
    LET mf == find_child(t, "MFASSETCLASS")
        fi == find_child(t, "FIMFASSETCLASS")
    IN  (IF mf = <<>> THEN <<>> ELSE NodeAt(t, mf).kids)
        \o (IF fi = <<>> THEN <<>> ELSE NodeAt(t, fi).kids)

\* C19: MFINFO.from_etree on an MFINFO element: every row it binds carries in
\* mfinfo_id the identity of the parent instance, which is not null.
C19_RowsReferToParent ==
    (last.op = "bind_on" /\ last.on = "MFINFO" /\ docOrig.tag = "MFINFO")
    => \A i \in 1..Len(last.rows) :
          /\ last.rows[i].attrs["mfinfo_id"] # 0
          /\ last.inst.ent # 0 => last.rows[i].attrs["mfinfo_id"] = ents[last.inst.ent].id

\* C20: MFINFO.from_etree on an MFINFO element with MFASSETCLASS, FIMFASSETCLASS or
\* both, in a session whose transaction is alive: both lists are gone from the
\* element, and the rows bound are the PORTION and FIPORTION rows of the document,
\* each once.
C20_EveryRowBoundOnce ==
    (/\ last.op = "bind_on" /\ last.on = "MFINFO" /\ docOrig.tag = "MFINFO"
     /\ last.err # "InvalidRequestError")
    => /\ find_child(doc, "MFASSETCLASS") = <<>>
       /\ find_child(doc, "FIMFASSETCLASS") = <<>>
       /\ Len(last.rows) = Len(RowsOf(docOrig))
       /\ \A i \in 1..Len(last.rows) :
             /\ last.rows[i].cls = RowsOf(docOrig)[i].tag
             /\ Restrict(last.rows[i].attrs, DOMAIN last.rows[i].attrs \ {"mfinfo_id"})
                = flatten(RowsOf(docOrig)[i], TRUE).attrs

\* ------------------------------------------------------------------ grooming
\* how many children a MAIL element of a caller has at most, and how many times in
\* a row a caller grooms or ungrooms
MaxKids == 3

MaxOps == 2

\* the children of the MAIL elements a caller builds: FROM and FRM, another member,
\* and an aggregate that holds a FROM of its own
KidPool ==
    {Leaf("FROM", "s"), Leaf("FRM", "s"), Leaf("TO", "s"), Agg("EXT", <<Leaf("FROM", "s")>>)}

MailTrees == {Agg("MAIL", kids) : kids \in SeqsUpTo(KidPool, MaxKids)}

\* a tree as the specification writes it has no child FRM; one as the binder reads
\* it has no child FROM
SpecForm(t) == t.tag = "MAIL" /\ find_child(t, "FRM") = <<>>

BoundForm(t) == t.tag = "MAIL" /\ find_child(t, "FROM") = <<>>

InitGroom ==
    /\ ents = <<>>
    /\ failed = FALSE
    /\ calls = {}
    /\ binders = <<>>
    /\ build = [etree |-> "c", asserts |-> TRUE]
    /\ docOrig \in MailTrees
    /\ doc = docOrig
    /\ last = [op |-> "built", ops |-> <<>>, trail |-> <<docOrig>>,
               heap |-> <<docOrig>>, arg |-> 0, ret |-> 1]

\* the call returned the object r.ret of the heap r.heap; the caller's tree is the
\* first object of the heap
Groomed(op, r) ==
    /\ Len(last.ops) < MaxOps
    /\ last' = [op |-> op, ops |-> Append(last.ops, op),
                trail |-> Append(last.trail, r.heap[r.ret]),
                heap |-> r.heap, arg |-> last.ret, ret |-> r.ret]
    /\ doc' = r.heap[1]
    /\ UNCHANGED <<ents, failed, calls, docOrig, build, binders>>

\* a caller hands the tree it got last to MAIL.groom
Groom == Groomed("groom", MAIL_groom(last.heap, last.ret))

\* a caller hands the tree it got last to MAIL.ungroom
Ungroom == Groomed("ungroom", MAIL_ungroom(last.heap, last.ret))

NextGroom == Groom \/ Ungroom

SpecGroom == InitGroom /\ [][NextGroom]_vars

\* C12: MAIL.ungroom after MAIL.groom gives back every tree in specification form
\* (no child FRM), and MAIL.groom after MAIL.ungroom gives back every tree in bound
\* form (no child FROM).
C12_GroomUngroomInverse ==
    \A i \in 1..(Len(last.ops) - 1) :
        /\ (last.ops[i] = "groom" /\ last.ops[i + 1] = "ungroom" /\ SpecForm(last.trail[i]))
           => last.trail[i + 2] = last.trail[i]
        /\ (last.ops[i] = "ungroom" /\ last.ops[i + 1] = "groom" /\ BoundForm(last.trail[i]))
           => last.trail[i + 2] = last.trail[i]

\* a tree with two children FROM was groomed, which renamed one of them, and
\* ungroomed, which gave the tree back
C12_Witness ==
    /\ last.ops = <<"groom", "ungroom">>
    /\ SpecForm(docOrig)
    /\ Cardinality({i \in 1..Len(docOrig.kids) : docOrig.kids[i].tag = "FROM"}) = 2
    /\ find_child(last.trail[2], "FRM") # <<>>
    /\ last.trail[3] = docOrig

\* ------------------------------------------------------------------ concurrent binders
\* Two binders, each a thread with the session scoped_session gives it, call
\* get_or_create side by side on one database.  An entity of ents that is pending
\* belongs to the session of the binder that added it; a persistent one is a row
\* of the database that every session sees.
Binders == {1, 2}

RaceClasses == {"PAYEE", "STOCKINFO", "MFINFO"}

\* the natural keys the binders call get_or_create with
RaceKeys(cls) == {k \in ArgsOf(cls) : DOMAIN k = primary_keys(cls)}

\* a binder at the call of cls.get_or_create(**k)
RaceCalls ==
    UNION {{[pc |-> "called", cls |-> cls, attrs |-> k, ent |-> 0] : k \in RaceKeys(cls)} :
              cls \in RaceClasses}

InitRace ==
    /\ ents = <<>>
    /\ failed = FALSE
    /\ calls = {}
    /\ doc = NoTree
    /\ docOrig = NoTree
    /\ build = [etree |-> "c", asserts |-> TRUE]
    /\ binders \in [Binders -> RaceCalls]
    /\ last = [op |-> "init", tried |-> "-"]

\* the binder p is at pc' with the entity ent
Step(p, op, pc, ent) ==
    /\ binders' = [binders EXCEPT ![p] = [@ EXCEPT !.pc = pc, !.ent = ent]]
    /\ last' = [op |-> op, by |-> p, tried |-> "-"]
    /\ UNCHANGED <<failed, calls, doc, docOrig, build>>

\* DBSession.query(cls).filter_by(**pk).one() in a session that holds nothing
\* pending: the autoflush has nothing to do, the query sees the rows of the database
QueryRows(cls, pk, es) == QueryOne_NoAutoflush(cls, pk, es, FALSE)

\* cls.get(**attrs) of binder p, r its result on the rows of the database:
\* NoResultFound is caught by get_or_create
RaceQueried(p, r) ==
    /\ r.err \in {"", "NoResultFound"}
    /\ ents' = ents
    /\ Step(p, "get", IF r.err = "" THEN "found" ELSE "missed", r.ret)

RaceQuery ==
    \E p \in Binders :
        /\ binders[p].pc = "called"
        /\ RaceQueried(p, QueryRows(binders[p].cls, binders[p].attrs, ents))

\* instance = cls(**attrs); DBSession.add(instance): pending in the session of p
RaceAdd ==
    \E p \in Binders :
        /\ binders[p].pc = "missed"
        /\ ents' = SessionAdd(ents, Construct(binders[p].cls, binders[p].attrs).obj)
        /\ Step(p, "add", "added", Len(ents) + 1)

\* the session of binder p flushes and commits: the INSERT is refused when it breaks
\* the uniqueness of the natural key, and the entity is rolled back
RaceCommit ==
    \E p \in Binders :
        /\ binders[p].pc = "added"
        /\ IF Conflicts(ents, binders[p].ent)
           THEN /\ ents' = [ents EXCEPT ![binders[p].ent].state = "rolled back"]
                /\ Step(p, "commit", "IntegrityError", binders[p].ent)
           ELSE /\ ents' = [ents EXCEPT ![binders[p].ent] =
                               [@ EXCEPT !.state = "persistent",
                                         !.id = NewId(ents, binders[p].cls)]]
                /\ Step(p, "commit", "inserted", binders[p].ent)

NextRace == RaceQuery \/ RaceAdd \/ RaceCommit

SpecRace == InitRace /\ [][NextRace]_vars

\* C13: two binders that call get_or_create side by side: the database never holds
\* two rows with one natural key in one table, and of two binders with the same
\* schema and key that both added an entity at most one has it inserted; the INSERT
\* of the other is refused.
C13_NoDuplicateRows ==
    /\ \A i, j \in 1..Len(ents) :
          (/\ ents[i].state = "persistent" /\ ents[j].state = "persistent"
           /\ UniqueTable(ents[i].cls) = UniqueTable(ents[j].cls)
           /\ Key(ents[i]) = Key(ents[j])) => i = j
    /\ \A p, q \in Binders :
          (/\ p # q
           /\ binders[p].cls = binders[q].cls /\ binders[p].attrs = binders[q].attrs
           /\ binders[p].pc = "inserted")
          => binders[q].pc # "inserted"

\* both binders missed the key, both added an entity, one was inserted and the other
\* refused
C13_Witness ==
    /\ binders # <<>>
    /\ \E p, q \in Binders :
          /\ binders[p].cls = binders[q].cls /\ binders[p].attrs = binders[q].attrs
          /\ binders[p].pc = "inserted" /\ binders[q].pc = "IntegrityError"
          /\ ents[binders[q].ent].state = "rolled back"

\* ------------------------------------------------------------------ reference claims
\* the entities of the session that an account or payee element names
Resolved(es, sub) ==
    {i \in 1..Len(es) : es[i].cls = sub.tag
                        /\ Key(es[i]) = Restrict(flatten(sub, TRUE).attrs, primary_keys(sub.tag))}

\* C21: the first binding of a STMTTRN that holds a BANKACCTTO, a CCACCTTO or a
\* PAYEE succeeds; the sub-aggregate is gone from the tree, the session holds the
\* entity it names, and the instance refers to it: acctto_id is the identity of the
\* account, which is not null, payee_name the name of the payee.
C21_CounterpartyReferred ==
    \A tag \in {"BANKACCTTO", "CCACCTTO", "PAYEE"} :
        (/\ last.op = "bind" /\ last.prev = "-" /\ last.cls = "STMTTRN"
         /\ find_child(docOrig, tag) # <<>>)
        => LET sub == NodeAt(docOrig, find_child(docOrig, tag))
           IN  /\ last.err = ""
               /\ find_child(doc, tag) = <<>>
               /\ Resolved(ents, sub) # {}
               /\ \A i \in Resolved(ents, sub) :
                     IF tag = "PAYEE"
                     THEN last.inst.attrs["payee_name"] = ents[i].attrs["name"]
                     ELSE ents[i].id >= 1 /\ last.inst.attrs["acctto_id"] = ents[i].id

\* C22: a binding that ends with an error leaves the session holding exactly the
\* entities it held before the call: no entity that a hook or MFINFO.from_etree
\* created on the way remains.
C22_FailedBindingLeavesStore ==
    [][(last'.op = "bind_on" /\ last'.err # "")
       => /\ Len(ents') = Len(ents)
          /\ \A i \in 1..Len(ents) : ents'[i].cls = ents[i].cls /\ ents'[i].attrs = ents[i].attrs]_vars

\* ------------------------------------------------------------------ store claims
\* the entities a query of the class by the key of the attributes finds
Holding(es, cls, attrs) ==
    {i \in 1..Len(es) : /\ es[i].cls \in Polymorphic(cls)
                        /\ primary_keys(cls) \subseteq DOMAIN attrs
                        /\ Key(es[i]) = Restrict(attrs, primary_keys(cls))}

\* C23: a get_or_create that returns for a key the session already holds returns
\* the entity that holds it, adds nothing, and leaves the attributes of every
\* entity as they were: the non-key attributes of the call are ignored.
C23_FirstWriterWins ==
    [][(/\ last'.op = "get_or_create" /\ last'.err = ""
        /\ Holding(ents, last'.cls, last'.attrs) # {})
       => /\ last'.ret \in Holding(ents, last'.cls, last'.attrs)
          /\ Len(ents') = Len(ents)
          /\ \A i \in 1..Len(ents) :
                ents'[i].cls = ents[i].cls /\ ents'[i].attrs = ents[i].attrs]_vars

\* a PAYEE created without an address is returned to a call that passes one
C23_Witness ==
    /\ last.op = "get_or_create" /\ last.err = "" /\ ~last.created
    /\ "addr1" \in DOMAIN last.attrs
    /\ "addr1" \notin DOMAIN ents[last.ret].attrs

\* C25: a get or get_or_create whose attributes leave out a key attribute of the
\* class ends with ValueError, whose message names the class and its key
\* attributes; the session is not queried (no pending entity is flushed) and
\* nothing is added.
C25_MissingKeyRefused ==
    [][(/\ last'.op \in {"get", "get_or_create"}
        /\ ~(primary_keys(last'.cls) \subseteq DOMAIN last'.attrs))
       => /\ last'.err = "ValueError"
          /\ last'.msg = [schema |-> last'.cls, required |-> primary_keys(last'.cls),
                          given |-> last'.attrs]
          /\ ents' = ents /\ failed' = failed]_vars

\* a get_or_create without its key was refused while an entity was pending
C25_Witness ==
    /\ last.op = "get_or_create" /\ last.err = "ValueError"
    /\ ~(primary_keys(last.cls) \subseteq DOMAIN last.attrs)
    /\ \E i \in 1..Len(ents) : ents[i].state = "pending"

\* ------------------------------------------------------------------ hook claims
\* C24: the first binding of a MARGININTEREST without currency aggregates runs the
\* security hook of INVTRAN as the identity: the hook raises nothing, the tree is as
\* the caller handed it, the session is not queried, and the binding goes on to
\* construct the instance.
C24_BaseSecidHookIdentity ==
    (/\ last.op = "bind" /\ last.prev = "-" /\ last.cls = "MARGININTEREST"
     /\ find_descendant(docOrig, "CURRENCY") = <<>>
     /\ find_descendant(docOrig, "ORIGCURRENCY") = <<>>)
    => /\ "INVTRAN._do_secid" \in last.hooks
       /\ last.err = ""
       /\ doc = docOrig
       /\ ~last.access
       /\ last.inst.cls = "MARGININTEREST"

\* ------------------------------------------------------------------ grooming claims
\* C26: the tree MAIL.groom returns has no child tagged FROM, and the tree
\* MAIL.ungroom returns has no child tagged FRM, however many the argument had.
C26_EveryFromRenamed ==
    /\ last.op = "groom" => find_child(last.trail[Len(last.trail)], "FROM") = <<>>
    /\ last.op = "ungroom" => find_child(last.trail[Len(last.trail)], "FRM") = <<>>

\* C27: after MAIL.groom or MAIL.ungroom the argument is the tree it was before
\* the call, the tree returned is another object, and the tree the caller built
\* first is as it was built.
C27_ArgumentUntouched ==
    last.op \in {"groom", "ungroom"}
    => /\ last.heap[last.arg] = last.trail[Len(last.trail) - 1]
       /\ last.ret # last.arg
       /\ doc = docOrig

\* a tree was groomed and the result ungroomed, both calls renamed a child, and
\* both arguments are as they were
C27_Witness ==
    /\ last.ops = <<"groom", "ungroom">>
    /\ last.trail[2] # last.trail[1] /\ last.trail[3] # last.trail[2]
    /\ last.heap[1] = last.trail[1] /\ last.heap[2] = last.trail[2]

\* ------------------------------------------------------------------ security claims
\* C28: a STOCKINFO bound without get_or_create is constructed from the flattened
\* attributes with 'yield' renamed: the instance has no attribute yield, has yld
\* equal to the yield the tree quoted when it quoted one and no yld otherwise, and
\* has every other attribute as it was flattened; nothing is added to them.
C28_YieldRenamed ==
    (last.op = "bind_on" /\ docOrig.tag = "STOCKINFO" /\ ~last.goc)
    => LET f == flatten(docOrig, TRUE).attrs
           a == last.inst.attrs
       IN  /\ last.err = ""
           /\ "STOCKINFO._postflatten" \in last.hooks
           /\ "yield" \notin DOMAIN a
           /\ ("yld" \in DOMAIN a) = ("yield" \in DOMAIN f)
           /\ "yield" \in DOMAIN f => a["yld"] = f["yield"]
           /\ DOMAIN a \ {"yld"} = DOMAIN f \ {"yield"}
           /\ \A k \in DOMAIN f \ {"yield"} : a[k] = f[k]

\* a STOCKINFO that quotes the yield 0 was bound with yld 0
C28_Witness ==
    /\ last.op = "bind_on" /\ docOrig = STOCKINFO_yield("0") /\ ~last.goc
    /\ last.err = "" /\ last.inst.attrs["yld"] = "0"
    /\ last.inst.attrs["secname"] = "n"

\* C29: a STOCKINFO or an MFINFO with a YIELD child, bound without get_or_create,
\* binds: the constructor is handed no attribute yield, and the instance has yld
\* equal to the text of the child.
C29_YieldBindsOnEverySecurity ==
    (/\ last.op = "bind_on" /\ docOrig.tag \in {"STOCKINFO", "MFINFO"} /\ ~last.goc
     /\ find_child(docOrig, "YIELD") # <<>>)
    => /\ last.err = ""
       /\ "yield" \notin DOMAIN last.inst.attrs
       /\ last.inst.attrs["yld"] = NodeAt(docOrig, find_child(docOrig, "YIELD")).text

\* C30: the binding of an OPTINFO leaves no direct SECID child in the tree and
\* hands on no secinfo_id; without get_or_create it queries nothing, changes
\* nothing in the session and succeeds, whatever the session holds.
C30_UnderlyingNeverResolved ==
    (last.op = "bind_on" /\ docOrig.tag = "OPTINFO")
    => /\ "OPTINFO._do_secid" \in last.hooks
       /\ find_child(doc, "SECID") = <<>>
       /\ "secinfo_id" \notin DOMAIN last.inst.attrs
       /\ ~last.goc => /\ last.err = "" /\ ~last.access
                       /\ last.inst.attrs = [uniqueid |-> "o", uniqueidtype |-> "CUSIP",
                                             secname |-> "n", opttype |-> "CALL"]
                       /\ Len(ents) = last.before

\* an OPTINFO with the SECID of a security that the session holds was bound
C30_Witness ==
    /\ last.op = "bind_on" /\ docOrig = OPTINFO_el(TRUE) /\ ~last.goc /\ last.err = ""
    /\ find_child(doc, "SECID") = <<>>
    /\ \E i \in 1..Len(ents) :
          ents[i].cls \in SecinfoClasses /\ ents[i].state = "persistent"
          /\ Key(ents[i]) = TheSecurity

====
